---------------------------- MODULE Spec2Model ----------------------------
(***************************************************************************)
(* Per-turn context planner (src/agents/context-planner.ts), the memory    *)
(* cortex recall that runs before the LLM call                             *)
(* (src/auto-reply/reply/agent-runner-memory-cortex.ts and                 *)
(* memory-cortex-client.ts) and the tool policy pipeline step that         *)
(* consumes the plan's allowlist (docs/plans context planner, Task 6).     *)
(*                                                                         *)
(* A message is represented by what the classifier's regular expressions   *)
(* and length tests observe of it: its length, how many keyword patterns   *)
(* of each category match, which structural signals it carries and which   *)
(* configured extra patterns match it.                                     *)
(***************************************************************************)
EXTENDS Integers, Sequences, FiniteSets, TLC

VARIABLES
    \* --- context planner -------------------------------------------------
    pc,            \* "ready" before classifyMessage is called, "done" after
    message,       \* the raw message handed to classifyMessage
    config,        \* the ContextPlannerConfig handed to classifyMessage
    plan,          \* the ContextPlan returned (Null before the call)
    calls,         \* the classifyMessage calls made so far, each with its
                   \* arguments and the plan it returned
    fallbackPlan,  \* what the module's FALLBACK_PLAN object holds now
    \* --- memory cortex recall --------------------------------------------
    rpc,           \* where runMemoryCortexRecall stands: "idle", "searching"
                   \* (awaiting hybridSearch), "persisting" (awaiting the
                   \* recall-metadata write), "returned"
    mc,            \* cfg.infrastructure.memoryCortex
    params,        \* the other arguments of runMemoryCortexRecall
    now,           \* Date.now()
    requests,      \* the requests sent to the memory service, in order
    search,        \* how the hybrid-search fetch ended ("none" before)
    frame,         \* facts, factsCount and memoryContext once computed
    synthesis,     \* the background recall() of fireAsyncSynthesis
    store,         \* the session store entry of the session
    returned,      \* the MemoryCortexRecallResult returned (Null before)
    \* --- tool policy pipeline --------------------------------------------
    ppc,           \* "build" before the steps are built, "filter", "done"
    options,       \* the policies and the plan allowlist handed in
    steps,         \* the steps still to apply
    applied,       \* labels of the steps applied so far, in order
    tools,         \* the tools that are left
    \* --- ingestion (runMemoryCortexIngestionIfNeeded) ---------------------
    ipc,           \* "idle" before the call, "returned" after it
    iparams,       \* the arguments of runMemoryCortexIngestionIfNeeded
    ingestCall,    \* the detached ingest(): "none", "inflight", or how it ended
    ingestWrite,   \* the detached timestamp write: "none", "inflight", "ok", "failed"
    \* --- turns of one session that overlap ---------------------------------
    turns          \* per turn: where its recall, its background synthesis and
                   \* its ingest-timestamp write stand, and what each wrote

plannerVars == <<pc, message, config, plan, calls, fallbackPlan>>

recallVars == <<rpc, mc, params, now, requests, search, frame, synthesis, store, returned>>

pipelineVars == <<ppc, options, steps, applied, tools>>

ingestVars == <<ipc, iparams, ingestCall, ingestWrite>>

raceVars == <<turns>>

vars == <<plannerVars, recallVars, pipelineVars, ingestVars, raceVars>>

-----------------------------------------------------------------------------
(* Generic helpers *)

\* string | null, string[] | null: a tagged value, so that null compares
\* with every other value.
Null == [null |-> TRUE]
Some(v) == [null |-> FALSE, val |-> v]

Max(a, b) == IF a >= b THEN a ELSE b

Range(s) == {s[i] : i \in DOMAIN s}

\* Set.add over a list, then [...set]: insertion order, no duplicates.
RECURSIVE AddAll(_, _)
AddAll(list, items) ==
    IF items = <<>> THEN list
    ELSE AddAll(IF Head(items) \in Range(list) THEN list
                ELSE Append(list, Head(items)),
                Tail(items))

-----------------------------------------------------------------------------
(* Thinking levels *)

THINK_LEVEL_ORDER ==
    [off |-> 0, minimal |-> 1, low |-> 2, medium |-> 3, high |-> 4, xhigh |-> 5]

\* THINK_LEVEL_ORDER is an object literal, so a lookup also finds the
\* members it inherits from Object.prototype: functions, and the prototype
\* itself for "__proto__".
ObjectPrototypeNames ==
    {"constructor", "toString", "toLocaleString", "valueOf", "hasOwnProperty",
     "isPrototypeOf", "propertyIsEnumerable", "__proto__"}

\* THINK_LEVEL_ORDER[a] ?? 0, where the lookup gives a number or nothing.
ThinkRank(l) == IF l \in DOMAIN THINK_LEVEL_ORDER THEN THINK_LEVEL_ORDER[l] ELSE 0

\* (THINK_LEVEL_ORDER[a] ?? 0) >= (THINK_LEVEL_ORDER[b] ?? 0): an inherited
\* member is not nullish, converts to NaN, and no comparison with NaN holds.
rankAtLeast(a, b) ==
    /\ a \notin ObjectPrototypeNames
    /\ b \notin ObjectPrototypeNames
    /\ ThinkRank(a) >= ThinkRank(b)

\* Faulty variant: the comparison turned around, which keeps the lower level.
maxThinkLevelFlipped(a, b) == IF rankAtLeast(a, b) THEN b ELSE a

maxThinkLevel(a, b) == IF rankAtLeast(a, b) THEN a ELSE b

-----------------------------------------------------------------------------
(* Category table.  patterns is the number of keyword patterns of the      *)
(* category; the structural checkers are the operator structural below.    *)

CATEGORIES == <<
    [name |-> "casual", patterns |-> 5, threshold |-> 3, matchWeight |-> 3,
     tools |-> <<"message">>,
     memory |-> [maxFacts |-> 0, maxTokens |-> 0, skip |-> TRUE],
     thinking |-> "off"],
    [name |-> "research", patterns |-> 4, threshold |-> 3, matchWeight |-> 2,
     tools |-> <<"exec", "web_fetch", "web_search", "message", "read">>,
     memory |-> [maxFacts |-> 10, maxTokens |-> 400, skip |-> FALSE],
     thinking |-> "low"],
    [name |-> "coding", patterns |-> 5, threshold |-> 3, matchWeight |-> 2,
     tools |-> <<"exec", "read", "write", "edit", "apply_patch", "process", "message">>,
     memory |-> [maxFacts |-> 5, maxTokens |-> 200, skip |-> FALSE],
     thinking |-> "medium"],
    [name |-> "crypto", patterns |-> 7, threshold |-> 3, matchWeight |-> 2,
     tools |-> <<"exec", "message", "web_fetch", "web_search">>,
     memory |-> [maxFacts |-> 8, maxTokens |-> 300, skip |-> FALSE],
     thinking |-> "medium"],
    [name |-> "media", patterns |-> 5, threshold |-> 3, matchWeight |-> 3,
     tools |-> <<"exec", "message">>,
     memory |-> [maxFacts |-> 3, maxTokens |-> 150, skip |-> FALSE],
     thinking |-> "off"],
    [name |-> "monitoring", patterns |-> 5, threshold |-> 3, matchWeight |-> 2,
     tools |-> <<"exec", "message">>,
     memory |-> [maxFacts |-> 3, maxTokens |-> 150, skip |-> FALSE],
     thinking |-> "off"],
    [name |-> "memory", patterns |-> 5, threshold |-> 3, matchWeight |-> 3,
     tools |-> <<"memory_search", "memory_get", "message">>,
     memory |-> [maxFacts |-> 25, maxTokens |-> 1000, skip |-> FALSE],
     thinking |-> "low"],
    [name |-> "complex", patterns |-> 3, threshold |-> 4, matchWeight |-> 2,
     tools |-> <<>>,
     memory |-> [maxFacts |-> 15, maxTokens |-> 500, skip |-> FALSE],
     thinking |-> "high"] >>

CategoryNames == {CATEGORIES[i].name : i \in DOMAIN CATEGORIES}

CategoryOf(name) == CHOOSE c \in Range(CATEGORIES) : c.name = name

\* Sum of the structural signal checkers of a category on the (trimmed)
\* message msg.
structural(name, msg) ==
    CASE name = "casual" ->
           (IF msg.len < 20 THEN 3 ELSE 0)
         + (IF "emojiOnly" \in msg.sig THEN 5 ELSE 0)
         + (IF "oneWord" \in msg.sig /\ msg.len < 15 THEN 2 ELSE 0)
      [] name = "research" ->
           (IF "url" \in msg.sig THEN 3 ELSE 0)
         + (IF msg.qCount >= 1 THEN 2 ELSE 0)
      [] name = "coding" ->
           (IF "filePath" \in msg.sig THEN 3 ELSE 0)
         + (IF "codeFence" \in msg.sig THEN 4 ELSE 0)
         + (IF "inlineCode" \in msg.sig THEN 2 ELSE 0)
      [] name = "crypto" ->
           (IF "dollarAmount" \in msg.sig THEN 2 ELSE 0)
         + (IF "hexAddress" \in msg.sig THEN 3 ELSE 0)
         + (IF "base58" \in msg.sig THEN 2 ELSE 0)
      [] name = "complex" ->
           (IF msg.len > 300 THEN 3 ELSE IF msg.len > 200 THEN 1 ELSE 0)
         + (IF "sentences3" \in msg.sig THEN 2 ELSE 0)
         + (IF "numberedList" \in msg.sig THEN 2 ELSE 0)
         + (IF msg.qCount >= 3 THEN 3 ELSE IF msg.qCount >= 2 THEN 1 ELSE 0)
      [] OTHER -> 0

-----------------------------------------------------------------------------
(* Classifier *)

\* Pattern sources for which new RegExp(pattern, "i") throws.
MalformedPatterns == {"("}

\* Faulty variant: one try around the whole loop, so that a malformed
\* pattern ends the scoring of the extra patterns.
RECURSIVE extraMatchesUntilMalformed(_, _)
extraMatchesUntilMalformed(extraPatterns, msg) ==
    IF extraPatterns = <<>> \/ Head(extraPatterns) \in MalformedPatterns THEN 0
    ELSE (IF Head(extraPatterns) \in msg.xp THEN 1 ELSE 0)
         + extraMatchesUntilMalformed(Tail(extraPatterns), msg)

\* Number of entries of extraPatterns that compile and match msg.
RECURSIVE extraMatches(_, _)
extraMatches(extraPatterns, msg) ==
    IF extraPatterns = <<>> THEN 0
    ELSE (IF Head(extraPatterns) \notin MalformedPatterns
             /\ Head(extraPatterns) \in msg.xp THEN 1 ELSE 0)
         + extraMatches(Tail(extraPatterns), msg)

scoreCategory(msg, cat, cfg) ==
    IF cfg.categories[cat.name].disabled THEN 0
    ELSE LET score == msg.kw[cat.name] * cat.matchWeight
                    + extraMatches(cfg.categories[cat.name].extraPatterns, msg)
                      * cat.matchWeight
                    + structural(cat.name, msg)
         IN IF cat.name = "complex" /\ msg.len < cfg.complexThreshold
            THEN Max(0, score - 3)
            ELSE score

\* Faulty variant: a fallback whose memory policy recalls nothing.
FALLBACK_PLAN_NoMemory ==
    [categories |-> <<>>,
     toolAllowlist |-> [null |-> TRUE],
     thinkLevel |-> "low",
     memoryParams |-> [maxFacts |-> 0, maxTokens |-> 0, skip |-> FALSE],
     hint |-> [null |-> TRUE]]

FALLBACK_PLAN ==
    [categories |-> <<>>,
     toolAllowlist |-> Null,
     thinkLevel |-> "low",
     memoryParams |-> [maxFacts |-> 15, maxTokens |-> 500, skip |-> FALSE],
     hint |-> Null]

\* message.trim()
trim(m) == [m EXCEPT !.ws = 0]

\* The categories whose score reaches their threshold, in table order.
matchedCategories(msg, cfg) ==
    SelectSeq(CATEGORIES, LAMBDA cat : scoreCategory(msg, cat, cfg) >= cat.threshold)

RECURSIVE unionTools(_, _, _)
unionTools(toolSet, matched, cfg) ==
    IF matched = <<>> THEN toolSet
    ELSE unionTools(
            AddAll(AddAll(toolSet, Head(matched).tools),
                   cfg.categories[Head(matched).name].extraTools),
            Tail(matched), cfg)

\* Faulty variant: the always-include names are left out.
planToolAllowlistNoAlways(matched, cfg) ==
    IF (\A i \in DOMAIN matched : Len(matched[i].tools) # 0) /\ cfg.toolFiltering
    THEN [null |-> FALSE, val |-> unionTools(<<>>, matched, cfg)]
    ELSE [null |-> TRUE]

\* Faulty variant: every() for some(): unrestricted only when all matched categories are.
planToolAllowlistEvery(matched, cfg) ==
    IF (\E i \in DOMAIN matched : Len(matched[i].tools) # 0) /\ cfg.toolFiltering
    THEN [null |-> FALSE, val |-> AddAll(unionTools(<<>>, matched, cfg), cfg.alwaysInclude)]
    ELSE [null |-> TRUE]

planToolAllowlist(matched, cfg) ==
    IF (\A i \in DOMAIN matched : Len(matched[i].tools) # 0) /\ cfg.toolFiltering
    THEN Some(AddAll(unionTools(<<>>, matched, cfg), cfg.alwaysInclude))
    ELSE Null

\* Faulty variant: the numeric fields add up.
RECURSIVE mergeMemorySum(_, _)
mergeMemorySum(acc, matched) ==
    IF matched = <<>> THEN acc
    ELSE LET m == Head(matched).memory
         IN mergeMemorySum(
              [maxFacts  |-> acc.maxFacts + m.maxFacts,
               maxTokens |-> acc.maxTokens + m.maxTokens,
               skip      |-> IF ~m.skip THEN FALSE ELSE acc.skip],
              Tail(matched))

RECURSIVE mergeMemory(_, _)
mergeMemory(acc, matched) ==
    IF matched = <<>> THEN acc
    ELSE LET m == Head(matched).memory
         IN mergeMemory(
              [maxFacts  |-> IF m.maxFacts > acc.maxFacts THEN m.maxFacts ELSE acc.maxFacts,
               maxTokens |-> IF m.maxTokens > acc.maxTokens THEN m.maxTokens ELSE acc.maxTokens,
               skip      |-> IF ~m.skip THEN FALSE ELSE acc.skip],
              Tail(matched))

\* Faulty variant: one matched category asking to skip is enough.
planMemoryParamsAnySkip(matched, cfg) ==
    IF cfg.memoryTuning
    THEN [mergeMemory([maxFacts |-> 0, maxTokens |-> 0, skip |-> TRUE], matched)
            EXCEPT !.skip = \E i \in DOMAIN matched : matched[i].memory.skip]
    ELSE FALLBACK_PLAN.memoryParams

planMemoryParams(matched, cfg) ==
    IF cfg.memoryTuning
    THEN mergeMemory([maxFacts |-> 0, maxTokens |-> 0, skip |-> TRUE], matched)
    ELSE FALLBACK_PLAN.memoryParams

\* A per-category thinkingLevel override counts when it is truthy ("" is
\* the absent override).
catThinking(cat, cfg) ==
    IF cfg.categories[cat.name].thinkingLevel # ""
    THEN cfg.categories[cat.name].thinkingLevel
    ELSE cat.thinking

RECURSIVE mergeThinking(_, _, _)
mergeThinking(level, matched, cfg) ==
    IF matched = <<>> THEN level
    ELSE mergeThinking(maxThinkLevel(level, catThinking(Head(matched), cfg)),
                       Tail(matched), cfg)

\* Faulty variant: the thinkingTuning toggle is not consulted.
planThinkLevelAlwaysTuned(matched, cfg) == mergeThinking("off", matched, cfg)

planThinkLevel(matched, cfg) ==
    IF cfg.thinkingTuning THEN mergeThinking("off", matched, cfg) ELSE "low"

\* `[Context: <categories> task | tools: <n or all> | thinking: <level>]`
planHint(categories, toolAllowlist, thinkLevel, cfg) ==
    IF cfg.promptAnnotation
    THEN Some([categories |-> categories,
               tools |-> IF toolAllowlist.null THEN "all"
                         ELSE ToString(Len(toolAllowlist.val)),
               thinking |-> thinkLevel])
    ELSE Null

\* The plan built from a non-empty list of matched categories.
buildPlan(matched, cfg) ==
    LET categories == [i \in DOMAIN matched |-> matched[i].name]
        toolAllowlist == planToolAllowlist(matched, cfg)
        thinkLevel == planThinkLevel(matched, cfg)
    IN [categories |-> categories,
        toolAllowlist |-> toolAllowlist,
        memoryParams |-> planMemoryParams(matched, cfg),
        thinkLevel |-> thinkLevel,
        hint |-> planHint(categories, toolAllowlist, thinkLevel, cfg)]

\* The call with the master switch not off.
classifyEnabled(m, cfg) ==
    LET msg == trim(m)
    IN IF msg.len = 0 THEN FALLBACK_PLAN
       ELSE LET matched == matchedCategories(msg, cfg)
            IN IF Len(matched) = 0 THEN FALLBACK_PLAN
               ELSE buildPlan(matched, cfg)

\* Faulty variant: a pattern flagged /g keeps its lastIndex between calls,
\* so a call that follows a matching call matches nothing.
classifyMessageSticky(m, cfg) ==
    IF calls # <<>> /\ calls[Len(calls)].plan.categories # <<>>
    THEN FALLBACK_PLAN
    ELSE IF ~cfg.enabled THEN FALLBACK_PLAN ELSE classifyEnabled(m, cfg)

\* Faulty variant: the master switch is not consulted.
classifyMessageSwitchIgnored(m, cfg) == classifyEnabled(m, cfg)

classifyMessage(m, cfg) ==
    IF ~cfg.enabled THEN FALLBACK_PLAN ELSE classifyEnabled(m, cfg)

-----------------------------------------------------------------------------
(* Memory cortex recall: runMemoryCortexRecall, formatFactsAsContext,      *)
(* fireAsyncSynthesis and the hybridSearch / recall clients                *)

DefaultRecallMaxFacts == 15
DefaultRecallTimeoutMs == 200
DefaultRecallMaxTokens == 500
DefaultSynthesisCacheTtlMs == 300000
CharsPerToken == 4
MinQueryLength == 3
MinSynthesisQueryLength == 10

\* opt ?? d
OrElse(opt, d) == IF opt.null THEN d ELSE opt.val

\* A string is kept as what the code observes of it: a text block is the
\* list of its lines, each line its kind, the fact it renders (0: none) and
\* its length in characters.  <<>> is the empty string.
Line(kind, ref, len) == [kind |-> kind, ref |-> ref, len |-> len]

RECURSIVE SumLen(_)
SumLen(lines) == IF lines = <<>> THEN 0 ELSE Head(lines).len + SumLen(Tail(lines))

\* lines.join("\n").length
TextLength(lines) == IF lines = <<>> THEN 0 ELSE SumLen(lines) + Len(lines) - 1

\* Faulty variant: the cut is moved to the end of the line it falls in.
RECURSIVE sliceAtLineEnd(_, _)
sliceAtLineEnd(lines, n) ==
    IF lines = <<>> \/ n = 0 THEN <<>>
    ELSE IF Head(lines).len >= n \/ Tail(lines) = <<>>
         THEN <<Head(lines)>>
         ELSE <<Head(lines)>> \o sliceAtLineEnd(Tail(lines), n - Head(lines).len - 1)

\* block.slice(0, n): whole lines while they fit, the last one cut.
RECURSIVE slice(_, _)
slice(lines, n) ==
    IF lines = <<>> \/ n = 0 THEN <<>>
    ELSE IF Head(lines).len >= n \/ Tail(lines) = <<>>
         THEN <<[Head(lines) EXCEPT !.len = IF @ < n THEN @ ELSE n]>>
         ELSE IF n - Head(lines).len - 1 = 0
              THEN <<Head(lines), Line("blank", 0, 0)>>
              ELSE <<Head(lines)>> \o slice(Tail(lines), n - Head(lines).len - 1)

\* The comparator of toSorted: importance descending, then score
\* descending, an absent value counting as 0.
SortsBefore(a, b) ==
    IF OrElse(b.importance, 0) # OrElse(a.importance, 0)
    THEN OrElse(b.importance, 0) - OrElse(a.importance, 0) < 0
    ELSE OrElse(b.score, 0) - OrElse(a.score, 0) < 0

RECURSIVE insertSorted(_, _)
insertSorted(sorted, f) ==
    IF sorted = <<>> THEN <<f>>
    ELSE IF SortsBefore(f, Head(sorted)) THEN <<f>> \o sorted
         ELSE <<Head(sorted)>> \o insertSorted(Tail(sorted), f)

\* [...facts].toSorted(...): a stable sort.
RECURSIVE toSorted(_)
toSorted(facts) ==
    IF facts = <<>> THEN <<>>
    ELSE insertSorted(toSorted(SubSeq(facts, 1, Len(facts) - 1)), facts[Len(facts)])

\* `- ${topic} ${fact.fact}${imp}`: "[general]" for a missing topic,
\* " (importance: n)" with a one-digit n when importance is present.
factLine(f) ==
    Line("fact", f.id,
         2 + (IF f.topicLen = 0 THEN 9 ELSE f.topicLen + 2) + 1 + f.factLen
           + (IF f.importance.null THEN 0 ELSE 16))

\* Faulty variant: the summary is pushed after the fact lines.
formatFactsAsContextSummaryLast(facts, maxTokens, cachedSynthesis, synthesisCacheTtlMs, dateNow) ==
    IF Len(facts) = 0 /\ cachedSynthesis.null THEN <<>>
    ELSE LET sorted == toSorted(facts)
             ttl == OrElse(synthesisCacheTtlMs, DefaultSynthesisCacheTtlMs)
             summary ==
                 IF /\ ~cachedSynthesis.null
                    /\ cachedSynthesis.val.response.len > 0
                    /\ dateNow - cachedSynthesis.val.cachedAt < ttl
                 THEN <<Line("summary", 0, 37 + cachedSynthesis.val.response.len),
                        Line("blank", 0, 0)>>
                 ELSE <<>>
             factLines ==
                 IF Len(sorted) > 0
                 THEN <<Line("factsHeader", 0, 21)>>
                        \o [i \in DOMAIN sorted |-> factLine(sorted[i])]
                 ELSE <<>>
             block == <<Line("header", 0, 21), Line("blank", 0, 0)>> \o factLines \o summary
             maxChars == maxTokens * CharsPerToken
         IN IF TextLength(block) > maxChars THEN slice(block, maxChars) ELSE block

formatFactsAsContext(facts, maxTokens, cachedSynthesis, synthesisCacheTtlMs, dateNow) ==
    IF Len(facts) = 0 /\ cachedSynthesis.null THEN <<>>
    ELSE LET sorted == toSorted(facts)
             ttl == OrElse(synthesisCacheTtlMs, DefaultSynthesisCacheTtlMs)
             summary ==
                 IF /\ ~cachedSynthesis.null
                    /\ cachedSynthesis.val.response.len > 0
                    /\ dateNow - cachedSynthesis.val.cachedAt < ttl
                 THEN <<Line("summary", 0, 37 + cachedSynthesis.val.response.len),
                        Line("blank", 0, 0)>>
                 ELSE <<>>
             factLines ==
                 IF Len(sorted) > 0
                 THEN <<Line("factsHeader", 0, 21)>>
                        \o [i \in DOMAIN sorted |-> factLine(sorted[i])]
                 ELSE <<>>
             block == <<Line("header", 0, 21), Line("blank", 0, 0)>> \o summary \o factLines
             maxChars == maxTokens * CharsPerToken
         IN IF TextLength(block) > maxChars THEN slice(block, maxChars) ELSE block

noResult == [memoryContext |-> Null, factsCount |-> 0]

\* resolveMemoryCortexConfig(cfg)?.autoRecall
autoRecallOn(m) == m.enabled /\ m.autoRecall

\* Faulty variant: the guard on the query length is missing.
recallGuardedAnyLength(m, p) ==
    \/ ~autoRecallOn(m)
    \/ p.isHeartbeat /\ m.skipHeartbeat

\* The three guards of runMemoryCortexRecall.
recallGuarded(m, p) ==
    \/ ~autoRecallOn(m)
    \/ p.isHeartbeat /\ m.skipHeartbeat
    \/ p.queryLen < MinQueryLength

hybridSearchRequest(m) ==
    [endpoint |-> "hybrid-search",
     limit |-> OrElse(m.recallMaxFacts, DefaultRecallMaxFacts),
     timeoutMs |-> OrElse(m.recallTimeoutMs, DefaultRecallTimeoutMs)]

recallRequest == [endpoint |-> "recall", limit |-> 0, timeoutMs |-> 10000]

\* memoryContext as lines 256-264 compute it: a string or null.
recallMemoryContext(facts, m, p, dateNow) ==
    IF Len(facts) > 0 \/ ~p.cachedSynthesis.null
    THEN Some(formatFactsAsContext(facts,
                                   OrElse(m.recallMaxTokens, DefaultRecallMaxTokens),
                                   p.cachedSynthesis, m.synthesisCacheTtlMs, dateNow))
    ELSE Null

\* memoryContext || null
orNull(text) == IF text.null \/ TextLength(text.val) = 0 THEN Null ELSE text

\* Faulty variant: the block is formatted at the return, from the cache as
\* the session store holds it by then.
recallReturnLiveCache(f) ==
    [memoryContext |->
        orNull(recallMemoryContext(f.facts, mc,
                                   [params EXCEPT !.cachedSynthesis =
                                                      store.memoryCortexSynthesis],
                                   f.dateNow)),
     factsCount |-> f.factsCount]

recallReturn(f) == [memoryContext |-> orNull(f.memoryContext), factsCount |-> f.factsCount]

\* params.sessionKey && params.storePath
hasStore(p) == p.sessionKey /\ p.storePath

-----------------------------------------------------------------------------
(* Inputs and environment of the recall *)

\* Most facts one hybrid-search answer of the model holds.
MaxFacts == 2

\* Facts the memory service can answer with.
FactPool ==
    {[id |-> 1, topicLen |-> 0, factLen |-> 10, importance |-> Some(5), score |-> Some(2)],
     [id |-> 2, topicLen |-> 4, factLen |-> 20, importance |-> Null, score |-> Some(9)],
     [id |-> 3, topicLen |-> 0, factLen |-> 5, importance |-> Some(5), score |-> Some(7)]}

\* The answers: lists of distinct facts, in the order the service chose.
FactLists ==
    UNION {{fs \in [1..n -> FactPool] : \A i, j \in 1..n : i # j => fs[i] # fs[j]} :
             n \in 0..MaxFacts}

\* Clock readings: 100 s apart, on both sides of the TTLs.
Times == {300000, 400000, 500000}

\* A synthesis cached by an earlier turn: fireAsyncSynthesis stores only a
\* non-empty response, stamped with the clock of that time.
CachedSyntheses ==
    {Some([query |-> "earlier turn", response |-> [id |-> "earlier narrative", len |-> 30],
           cachedAt |-> t]) : t \in {0, 200000}}

MemoryCortexConfigs ==
    [enabled : BOOLEAN,
     autoRecall : BOOLEAN,
     skipHeartbeat : BOOLEAN,
     recallMaxFacts : {Null, Some(1)},
     recallTimeoutMs : {Null},
     recallMaxTokens : {Null, Some(0), Some(10)},
     synthesisCacheTtlMs : {Null, Some(100000)}]

\* commandBody.trim().length below and above the two query-length tests; a
\* cached synthesis only in a session that has a store entry.
RecallParams ==
    {p \in [isHeartbeat : BOOLEAN,
            queryLen : {2, 5, 12},
            sessionKey : BOOLEAN,
            storePath : BOOLEAN,
            cachedSynthesis : {Null} \cup CachedSyntheses] :
        /\ p.storePath => p.sessionKey
        /\ ~p.cachedSynthesis.null => hasStore(p)}

\* cfg.agents?.defaults?.contextPlanner of a deployment that configures
\* nothing: every switch on, no override.
TurnPlannerConfig ==
    [enabled |-> TRUE, toolFiltering |-> TRUE, memoryTuning |-> TRUE,
     thinkingTuning |-> TRUE, promptAnnotation |-> TRUE,
     alwaysInclude |-> <<>>, complexThreshold |-> 300,
     categories |-> [c \in CategoryNames |->
                        [disabled |-> FALSE, extraPatterns |-> <<>>,
                         extraTools |-> <<>>, thinkingLevel |-> ""]]]

\* The commandBody of length len that matches one keyword pattern of each
\* category of cats.
TurnMessage(len, cats) ==
    [len |-> len, ws |-> 0,
     kw |-> [c \in CategoryNames |-> IF c \in cats THEN 1 ELSE 0],
     sig |-> {}, qCount |-> 0, xp |-> {}]

\* The commandBody of the turn: a greeting of each query length, and a
\* question about something remembered.
TurnMessages ==
    {TurnMessage(2, {"casual"}), TurnMessage(5, {"casual"}),
     TurnMessage(12, {"casual"}), TurnMessage(12, {"memory"})}

\* contextPlan as agent-runner computes it before the recall.
contextPlanOf(isHeartbeat, commandBody, contextPlannerConfig) ==
    IF ~isHeartbeat /\ contextPlannerConfig.enabled
    THEN Some(classifyMessage(commandBody, contextPlannerConfig))
    ELSE Null

PlannerUnused ==
    /\ pc = "unused"
    /\ message = "unused"
    /\ config = "unused"
    /\ plan = Null
    /\ calls = <<>>
    /\ fallbackPlan = FALLBACK_PLAN

RecallUnused ==
    /\ rpc = "unused"
    /\ mc = "unused"
    /\ params = "unused"
    /\ now = 0
    /\ requests = <<>>
    /\ search = "none"
    /\ frame = Null
    /\ synthesis = "none"
    /\ store = "unused"
    /\ returned = Null

IngestUnused ==
    /\ ipc = "unused"
    /\ iparams = "unused"
    /\ ingestCall = "none"
    /\ ingestWrite = "none"

RaceUnused == turns = <<>>

PipelineUnused ==
    /\ ppc = "unused"
    /\ options = "unused"
    /\ steps = <<>>
    /\ applied = <<>>
    /\ tools = {}

\* The turn at the call of runMemoryCortexRecall: agent-runner has
\* classified the commandBody, and passes the same commandBody to the recall.
RecallInit ==
    /\ PipelineUnused
    /\ RaceUnused
    /\ IngestUnused
    /\ rpc = "idle"
    /\ mc \in MemoryCortexConfigs
    /\ params \in RecallParams
    /\ pc = "done"
    /\ config = TurnPlannerConfig
    /\ message \in TurnMessages
    /\ trim(message).len = params.queryLen
    /\ plan = contextPlanOf(params.isHeartbeat, message, config)
    /\ calls = <<>>
    /\ fallbackPlan = FALLBACK_PLAN
    /\ now = 300000
    /\ requests = <<>>
    /\ search = "none"
    /\ frame = Null
    /\ synthesis = "none"
    /\ store = [memoryCortexSynthesis |-> params.cachedSynthesis,
                memoryCortexRecalledAt |-> Null,
                memoryCortexFactsInjected |-> Null]
    /\ returned = Null

\* runMemoryCortexRecall from its call to its first await: the guards, then
\* the hybrid-search request.
RecallStart ==
    /\ rpc = "idle"
    /\ IF recallGuarded(mc, params)
       THEN /\ rpc' = "returned"
            /\ returned' = Some(noResult)
            /\ UNCHANGED requests
       ELSE /\ rpc' = "searching"
            /\ requests' = Append(requests, hybridSearchRequest(mc))
            /\ UNCHANGED returned
    /\ UNCHANGED <<mc, params, now, search, frame, synthesis, store>>
    /\ UNCHANGED <<plannerVars, pipelineVars, ingestVars, raceVars>>

\* From the result of hybridSearch to the next await or the return: facts,
\* memoryContext, fireAsyncSynthesis, then the metadata write when the
\* session has a store entry.
AfterSearch(outcome, searchResult) ==
    LET facts == IF searchResult.null THEN <<>> ELSE searchResult.val
    IN /\ search' = outcome
       /\ frame' = Some([facts |-> facts,
                         factsCount |-> Len(facts),
                         dateNow |-> now,
                         memoryContext |-> recallMemoryContext(facts, mc, params, now)])
       /\ IF hasStore(params) /\ params.queryLen >= MinSynthesisQueryLength
          THEN /\ synthesis' = "inflight"
               /\ requests' = Append(requests, recallRequest)
          ELSE UNCHANGED <<synthesis, requests>>
       /\ IF hasStore(params)
          THEN rpc' = "persisting" /\ UNCHANGED returned
          ELSE /\ rpc' = "returned"
               /\ returned' = Some(recallReturn(frame'.val))
       /\ UNCHANGED <<mc, params, now, store>>
       /\ UNCHANGED <<plannerVars, pipelineVars, ingestVars, raceVars>>

\* hybridSearch: the service answers with a success status and a body.
SearchSucceeds ==
    /\ rpc = "searching"
    /\ \E facts \in FactLists : AfterSearch("ok", Some(facts))

\* hybridSearch returns null: a non-success status, a transport error, or
\* the timer aborting the fetch.
SearchFails ==
    /\ rpc = "searching"
    /\ \E outcome \in {"badStatus", "transport", "aborted"} : AfterSearch(outcome, Null)

\* Faulty variant: the return waits for the synthesis to end.
PersistRecallMetadataJoining ==
    /\ rpc = "persisting"
    /\ synthesis \notin {"inflight", "caching"}
    /\ \E ok \in BOOLEAN :
          store' = IF ok
                   THEN [store EXCEPT !.memoryCortexRecalledAt = Some(now),
                                      !.memoryCortexFactsInjected = Some(frame.val.factsCount)]
                   ELSE store
    /\ rpc' = "returned"
    /\ returned' = Some(recallReturn(frame.val))
    /\ UNCHANGED <<mc, params, now, requests, search, frame, synthesis>>
    /\ UNCHANGED <<plannerVars, pipelineVars, ingestVars, raceVars>>

\* The awaited updateSessionStoreEntry of the recall metadata, which may
\* fail (caught), and the return.
PersistRecallMetadata ==
    /\ rpc = "persisting"
    /\ \E ok \in BOOLEAN :
          store' = IF ok
                   THEN [store EXCEPT !.memoryCortexRecalledAt = Some(now),
                                      !.memoryCortexFactsInjected = Some(frame.val.factsCount)]
                   ELSE store
    /\ rpc' = "returned"
    /\ returned' = Some(recallReturn(frame.val))
    /\ UNCHANGED <<mc, params, now, requests, search, frame, synthesis>>
    /\ UNCHANGED <<plannerVars, pipelineVars, ingestVars, raceVars>>

\* Faulty variant: a synthesis that brings no narrative clears the cache.
SynthesisRespondsClearing ==
    /\ synthesis = "inflight"
    /\ \E outcome \in {"narrative", "empty", "failed"} :
          /\ synthesis' = IF outcome = "narrative" THEN "caching" ELSE "dropped"
          /\ store' = IF outcome = "narrative"
                      THEN store
                      ELSE [store EXCEPT !.memoryCortexSynthesis = Null]
    /\ UNCHANGED <<rpc, mc, params, now, requests, search, frame, returned>>
    /\ UNCHANGED <<plannerVars, pipelineVars, ingestVars, raceVars>>

\* recall() resolves: with a narrative, with no narrative, or with null
\* after a bad status, a transport error or its own timeout.
SynthesisResponds ==
    /\ synthesis = "inflight"
    /\ \E outcome \in {"narrative", "empty", "failed"} :
          synthesis' = IF outcome = "narrative" THEN "caching" ELSE "dropped"
    /\ UNCHANGED <<rpc, mc, params, now, requests, search, frame, store, returned>>
    /\ UNCHANGED <<plannerVars, pipelineVars, ingestVars, raceVars>>

\* The updateSessionStoreEntry of fireAsyncSynthesis, which may fail (caught).
SynthesisCacheWrite ==
    /\ synthesis = "caching"
    /\ \E ok \in BOOLEAN :
          /\ store' = IF ok
                      THEN [store EXCEPT !.memoryCortexSynthesis =
                              Some([query |-> "this turn",
                                    response |-> [id |-> "new narrative", len |-> 40],
                                    cachedAt |-> now])]
                      ELSE store
          /\ synthesis' = IF ok THEN "cached" ELSE "writeFailed"
    /\ UNCHANGED <<rpc, mc, params, now, requests, search, frame, returned>>
    /\ UNCHANGED <<plannerVars, pipelineVars, ingestVars, raceVars>>

\* Time passes.
Tick ==
    /\ \/ rpc \in {"idle", "searching", "persisting"}
       \/ synthesis \in {"inflight", "caching"}
       \/ ipc = "idle"
       \/ ingestCall = "inflight"
       \/ ingestWrite = "inflight"
    /\ \E t \in Times : t > now /\ (\A u \in Times : u > now => t <= u) /\ now' = t
    /\ UNCHANGED <<rpc, mc, params, requests, search, frame, synthesis, store, returned>>
    /\ UNCHANGED <<plannerVars, pipelineVars, ingestVars, raceVars>>

RecallNext ==
    \/ RecallStart
    \/ SearchSucceeds
    \/ SearchFails
    \/ PersistRecallMetadata
    \/ SynthesisResponds
    \/ SynthesisCacheWrite
    \/ Tick

RecallSpec == RecallInit /\ [][RecallNext]_vars

-----------------------------------------------------------------------------
(* The recall against a memory service that never answers *)

\* The timer of hybridSearch fires: controller.abort() rejects the fetch,
\* the catch returns null.
HardTimeoutFires ==
    /\ rpc = "searching"
    /\ AfterSearch("aborted", Null)

\* AbortSignal.timeout(10_000) of recall() rejects its fetch: recall()
\* returns null and fireAsyncSynthesis writes nothing.
SynthesisTimesOut ==
    /\ synthesis = "inflight"
    /\ synthesis' = "dropped"
    /\ UNCHANGED <<rpc, mc, params, now, requests, search, frame, store, returned>>
    /\ UNCHANGED <<plannerVars, pipelineVars, ingestVars, raceVars>>

UnreachableNext ==
    \/ RecallStart
    \/ HardTimeoutFires
    \/ PersistRecallMetadata
    \/ SynthesisTimesOut
    \/ Tick

\* The function runs once it is called, a timer that is set fires, and the
\* write to the local session store ends, written or failed.
UnreachableSpec ==
    /\ RecallInit
    /\ [][UnreachableNext]_vars
    /\ WF_vars(RecallStart)
    /\ WF_vars(HardTimeoutFires)
    /\ WF_vars(PersistRecallMetadata)

-----------------------------------------------------------------------------
(* Ingestion after the response: runMemoryCortexIngestionIfNeeded, the     *)
(* detached ingest() and the detached timestamp write                      *)

\* One line of the session JSONL file, as readSessionMessagesForIngestion
\* tells lines apart: "blank" (empty once trimmed), "badJson" (JSON.parse
\* throws), "notMessage" (no object of type "message"), "noMessageObject"
\* (its message is no object), "message".  role is Null when it is not a
\* string, name is Null when absent.
Entry(kind, role, content, name) ==
    [kind |-> kind, role |-> role, content |-> content, name |-> name]

\* message.content: a string, an array of blocks, or anything else.  A
\* string is one piece of text; a block is a text or something else.
StringContent(id, len) == [form |-> "string", blocks |-> <<Line("text", id, len)>>]
BlocksContent(blocks) == [form |-> "blocks", blocks |-> blocks]
OtherContent == [form |-> "other", blocks |-> <<>>]

\* The content string of a message: the string itself, or the text blocks
\* joined by "\n".
contentText(content) ==
    IF content.form = "string"
    THEN content.blocks
    ELSE SelectSeq(content.blocks, LAMBDA b : b.kind = "text")

\* The SimplifiedMessage a line gives, or Null when the line is skipped.
simplifiedMessage(e) ==
    IF e.kind # "message" THEN Null
    ELSE IF e.role.null THEN Null
    ELSE IF e.content.form = "other" THEN Null
    ELSE IF TextLength(contentText(e.content)) = 0 THEN Null
    ELSE Some([role |-> e.role.val,
               content |-> contentText(e.content),
               name |-> IF e.name.null \/ e.name = Some("") THEN Null ELSE e.name])

RECURSIVE collectMessages(_)
collectMessages(lines) ==
    IF lines = <<>> THEN <<>>
    ELSE LET m == simplifiedMessage(Head(lines))
         IN (IF m.null THEN <<>> ELSE <<m.val>>) \o collectMessages(Tail(lines))

\* A file that cannot be read gives no message.
readSessionMessagesForIngestion(file) ==
    IF ~file.readable THEN <<>> ELSE collectMessages(file.lines)

\* The body of POST /ingest and the timeout of its fetch.
ingestRequest(messages) ==
    [endpoint |-> "ingest", messages |-> messages, debounce |-> TRUE, timeoutMs |-> 5000]

\* resolveMemoryCortexConfig(cfg)?.autoIngest
autoIngestOn(m) == m.enabled /\ m.autoIngest

\* Faulty variant: a heartbeat run is ingested like any other.
ingestionSkippedNoHeartbeatGuard(m, p) ==
    \/ ~autoIngestOn(m)
    \/ p.sessionFile.null
    \/ readSessionMessagesForIngestion(p.sessionFile.val) = <<>>

\* The four guards of runMemoryCortexIngestionIfNeeded.
ingestionSkipped(m, p) ==
    \/ ~autoIngestOn(m)
    \/ p.isHeartbeat /\ m.skipHeartbeat
    \/ p.sessionFile.null
    \/ readSessionMessagesForIngestion(p.sessionFile.val) = <<>>

\* runMemoryCortexIngestionIfNeeded, which has no await: the guards, the
\* transcript, ingest() started, the timestamp write started, the return.
\* agent-runner calls it after the response, so after the awaited recall.
IngestStart ==
    /\ ipc = "idle"
    /\ rpc \in {"unused", "returned"}
    /\ ipc' = "returned"
    /\ IF ingestionSkipped(mc, iparams)
       THEN UNCHANGED <<requests, ingestCall, ingestWrite>>
       ELSE /\ requests' = Append(requests,
                  ingestRequest(readSessionMessagesForIngestion(iparams.sessionFile.val)))
            /\ ingestCall' = "inflight"
            /\ ingestWrite' = IF iparams.storePath /\ iparams.sessionKey
                              THEN "inflight" ELSE "none"
    /\ UNCHANGED <<iparams, rpc, mc, params, now, search, frame, synthesis, store, returned>>
    /\ UNCHANGED <<plannerVars, pipelineVars, raceVars>>

\* Faulty variant: a request that did not succeed is sent again.
IngestRespondsRetrying ==
    /\ ingestCall = "inflight"
    /\ \E outcome \in {"ok", "badStatus", "transport", "timeout"} :
          IF outcome = "ok" \/ Len(requests) > 1
          THEN ingestCall' = outcome /\ UNCHANGED requests
          ELSE /\ requests' = Append(requests, requests[Len(requests)])
               /\ UNCHANGED ingestCall
    /\ UNCHANGED <<ipc, iparams, ingestWrite>>
    /\ UNCHANGED <<rpc, mc, params, now, search, frame, synthesis, store, returned>>
    /\ UNCHANGED <<plannerVars, pipelineVars, raceVars>>

\* The fetch of ingest() ends: a success status, a non-success status
\* (logged), a transport error or the 5 s timer (caught and logged).
IngestResponds ==
    /\ ingestCall = "inflight"
    /\ \E outcome \in {"ok", "badStatus", "transport", "timeout"} : ingestCall' = outcome
    /\ UNCHANGED <<ipc, iparams, ingestWrite>>
    /\ UNCHANGED <<recallVars, plannerVars, pipelineVars, raceVars>>

\* The updateSessionStoreEntry of the ingest timestamp ends: written, or
\* failed (caught and logged).
IngestTimestampWrite ==
    /\ ingestWrite = "inflight"
    /\ \E ok \in BOOLEAN :
          /\ store' = IF ok
                      THEN [store EXCEPT !.memoryCortexIngestedAt = Some(now)]
                      ELSE store
          /\ ingestWrite' = IF ok THEN "ok" ELSE "failed"
    /\ UNCHANGED <<ipc, iparams, ingestCall>>
    /\ UNCHANGED <<rpc, mc, params, now, requests, search, frame, synthesis, returned>>
    /\ UNCHANGED <<plannerVars, pipelineVars, raceVars>>

\* Most lines of a session file of the model.
MaxLines == 2

\* Lines of a session file: each kind the reader skips, a user message with
\* string content and a name, an assistant message of a text block and a
\* tool call, and messages that are skipped for their role or content.
TranscriptLines ==
    {Entry("blank", Null, OtherContent, Null),
     Entry("badJson", Null, OtherContent, Null),
     Entry("notMessage", Null, OtherContent, Null),
     Entry("noMessageObject", Null, OtherContent, Null),
     Entry("message", Some("user"), StringContent(1, 5), Some("alice")),
     Entry("message", Some("assistant"),
           BlocksContent(<<Line("text", 2, 7), Line("toolCall", 3, 0)>>), Some("")),
     Entry("message", Some("assistant"), BlocksContent(<<Line("toolCall", 3, 0)>>), Null),
     Entry("message", Some("user"), StringContent(4, 0), Null),
     Entry("message", Null, StringContent(1, 5), Null),
     Entry("message", Some("user"), OtherContent, Null)}

SessionFiles ==
    {[readable |-> FALSE, lines |-> <<>>]}
    \cup {[readable |-> TRUE, lines |-> l] :
             l \in UNION {[1..n -> TranscriptLines] : n \in 0..MaxLines}}

IngestConfigs == [enabled : BOOLEAN, autoIngest : BOOLEAN, skipHeartbeat : BOOLEAN]

IngestParams ==
    {p \in [isHeartbeat : BOOLEAN,
            sessionFile : {Null} \cup {Some(f) : f \in SessionFiles},
            sessionKey : BOOLEAN,
            storePath : BOOLEAN] :
        p.storePath => p.sessionKey}

\* The session entry with every memory-cortex field.
SessionEntryWith(cachedSynthesis, ingestedAt) ==
    [memoryCortexSynthesis |-> cachedSynthesis,
     memoryCortexRecalledAt |-> Null,
     memoryCortexFactsInjected |-> Null,
     memoryCortexIngestedAt |-> ingestedAt]

\* memoryCortexIngestedAt as earlier turns left it: absent, or a time
\* before this turn.
EarlierIngestTimes == {Null, Some(100000)}

\* The call of runMemoryCortexIngestionIfNeeded on its own.
IngestInit ==
    /\ PlannerUnused
    /\ PipelineUnused
    /\ RaceUnused
    /\ rpc = "unused"
    /\ params = "unused"
    /\ search = "none"
    /\ frame = Null
    /\ synthesis = "none"
    /\ returned = Null
    /\ requests = <<>>
    /\ now = 300000
    /\ mc \in IngestConfigs
    /\ store \in {SessionEntryWith(Null, t) : t \in EarlierIngestTimes}
    /\ ipc = "idle"
    /\ iparams \in IngestParams
    /\ ingestCall = "none"
    /\ ingestWrite = "none"

IngestNext ==
    \/ IngestStart
    \/ IngestResponds
    \/ IngestTimestampWrite
    \/ Tick

IngestSpec == IngestInit /\ [][IngestNext]_vars

-----------------------------------------------------------------------------
(* One turn of agent-runner: the awaited recall before the response, the   *)
(* ingestion after it                                                      *)

\* A deployment with recall and ingestion on and the defaults elsewhere.
TurnConfigs ==
    {[enabled |-> TRUE, autoRecall |-> TRUE, autoIngest |-> TRUE, skipHeartbeat |-> h,
      recallMaxFacts |-> Null, recallTimeoutMs |-> Null, recallMaxTokens |-> Null,
      synthesisCacheTtlMs |-> Null] : h \in BOOLEAN}

\* The session file of the turn: a user message and the reply.
TurnSessionFile ==
    [readable |-> TRUE,
     lines |-> <<Entry("message", Some("user"), StringContent(1, 5), Some("alice")),
                 Entry("message", Some("assistant"),
                       BlocksContent(<<Line("text", 2, 7)>>), Null)>>]

\* Both calls get the turn's isHeartbeat, sessionKey and storePath.
TurnInit ==
    /\ PipelineUnused
    /\ RaceUnused
    /\ rpc = "idle"
    /\ mc \in TurnConfigs
    /\ params \in RecallParams
    /\ pc = "done"
    /\ config = TurnPlannerConfig
    /\ message \in TurnMessages
    /\ trim(message).len = params.queryLen
    /\ plan = contextPlanOf(params.isHeartbeat, message, config)
    /\ calls = <<>>
    /\ fallbackPlan = FALLBACK_PLAN
    /\ now = 300000
    /\ requests = <<>>
    /\ search = "none"
    /\ frame = Null
    /\ synthesis = "none"
    /\ store = SessionEntryWith(params.cachedSynthesis, Null)
    /\ returned = Null
    /\ ipc = "idle"
    /\ iparams \in [isHeartbeat : {params.isHeartbeat},
                     sessionFile : {Null, Some(TurnSessionFile)},
                     sessionKey : {params.sessionKey},
                     storePath : {params.storePath}]
    /\ ingestCall = "none"
    /\ ingestWrite = "none"

TurnNext ==
    \/ RecallNext
    \/ IngestStart
    \/ IngestResponds
    \/ IngestTimestampWrite

TurnSpec == TurnInit /\ [][TurnNext]_vars

-----------------------------------------------------------------------------
(* Tool policy pipeline of createOpenClawCodingTools with the plan's       *)
(* allowlist as its last step                                              *)

\* A ToolPolicyLike: an optional allow list and a deny list.
AllowOnly(names) == Some([allow |-> Some(names), deny |-> {}])
DenyOnly(names) == Some([allow |-> Null, deny |-> names])

\* A policy lets a tool through when it does not deny it and, if it has an
\* allow list, lists it.
allowedBy(policy, tool) ==
    /\ tool \notin policy.deny
    /\ policy.allow.null \/ tool \in policy.allow.val

\* One pipeline step: a step without a policy keeps every tool, a step
\* with one keeps the tools its policy lets through.
applyStep(toolset, step) ==
    IF step.policy.null THEN toolset
    ELSE {t \in toolset : allowedBy(step.policy.val, t)}

\* applyToolPolicyPipeline: the steps in order, each on what the previous
\* one left; trail records every step's label and what it left.
RECURSIVE applyToolPolicyPipeline(_, _, _)
applyToolPolicyPipeline(toolset, remaining, trail) ==
    IF remaining = <<>> THEN [tools |-> toolset, trail |-> trail]
    ELSE LET left == applyStep(toolset, Head(remaining))
         IN applyToolPolicyPipeline(
              left, Tail(remaining),
              Append(trail, [label |-> Head(remaining).label, tools |-> left]))

\* buildDefaultToolPolicyPipelineSteps: the configured access policies.
buildDefaultToolPolicyPipelineSteps(o) ==
    <<[policy |-> o.globalPolicy, label |-> "tools.allow"],
      [policy |-> o.agentPolicy, label |-> "agent tools.allow"]>>

\* options?.contextPlanToolAllowlist ? { allow: ... } : undefined
contextPlanPolicy(o) ==
    IF o.contextPlanToolAllowlist.null THEN Null
    ELSE AllowOnly(Range(o.contextPlanToolAllowlist.val))

contextPlanSteps(o) ==
    IF contextPlanPolicy(o).null THEN <<>>
    ELSE <<[policy |-> contextPlanPolicy(o), label |-> "context-planner"]>>

\* Faulty variant: the context-planner step put in front of the access policies.
pipelineStepsPlannerFirst(o) ==
    contextPlanSteps(o)
      \o buildDefaultToolPolicyPipelineSteps(o)
      \o <<[policy |-> o.sandboxTools, label |-> "sandbox tools.allow"],
           [policy |-> o.subagentPolicy, label |-> "subagent tools.allow"]>>

\* The steps array handed to applyToolPolicyPipeline.
pipelineSteps(o) ==
    buildDefaultToolPolicyPipelineSteps(o)
      \o <<[policy |-> o.sandboxTools, label |-> "sandbox tools.allow"],
           [policy |-> o.subagentPolicy, label |-> "subagent tools.allow"]>>
      \o contextPlanSteps(o)

\* Tools createOpenClawCodingTools can have built before the pipeline.
ToolUniverse == {"exec", "message", "read", "web_search"}

PolicyChoices ==
    {Null, AllowOnly({"exec", "message"}), AllowOnly({"message", "read", "web_search"}),
     DenyOnly({"exec"})}

\* Allowlists classifyMessage returns: null, or the tools of matched
\* categories (casual; monitoring; research), never an empty list.
PlanAllowlists ==
    {Null, Some(<<"message">>), Some(<<"exec", "message">>),
     Some(<<"exec", "web_fetch", "web_search", "message", "read">>)}

PipelineOptions ==
    [toolsByAuthorization : SUBSET ToolUniverse,
     globalPolicy : PolicyChoices,
     agentPolicy : PolicyChoices,
     sandboxTools : PolicyChoices,
     subagentPolicy : PolicyChoices,
     contextPlanToolAllowlist : PlanAllowlists]

PipelineInit ==
    /\ PlannerUnused
    /\ RecallUnused
    /\ IngestUnused
    /\ RaceUnused
    /\ ppc = "build"
    /\ options \in PipelineOptions
    /\ steps = <<>>
    /\ applied = <<>>
    /\ tools = {}

\* createOpenClawCodingTools: build the steps and run the pipeline.
FilterTools ==
    /\ ppc = "build"
    /\ steps' = pipelineSteps(options)
    /\ LET out == applyToolPolicyPipeline(options.toolsByAuthorization, steps', <<>>)
       IN /\ tools' = out.tools
          /\ applied' = out.trail
    /\ ppc' = "done"
    /\ UNCHANGED options
    /\ UNCHANGED <<plannerVars, recallVars, ingestVars, raceVars>>

PipelineNext == FilterTools

PipelineSpec == PipelineInit /\ [][PipelineNext]_vars

-----------------------------------------------------------------------------
(* Inputs of classifyMessage *)

\* Most keyword-pattern matches, structural signals, question marks and
\* matching extra patterns a message of the model carries in total.
MaxHits == 3

\* Trimmed message lengths, on both sides of the lengths the classifier
\* tests (15, 20, 200, 300 and the configured complexThreshold).
Lens == {0, 4, 17, 60, 250, 300, 350}

Signals == {"emojiOnly", "oneWord", "url", "filePath", "codeFence", "inlineCode",
            "dollarAmount", "hexAddress", "base58", "sentences3", "numberedList"}

\* Valid pattern sources a deployment configures as extraPatterns.
ExtraPatternPool == {"deploy-word"}

\* The ways to spread exactly k keyword-pattern matches over the categories:
\* no more than a category has patterns, and one for casual, whose patterns
\* are alternatives anchored at the start.
KwCounts(k) ==
    {kw \in {[c \in CategoryNames |-> Cardinality({i \in 1..k : h[i] = c})] :
                h \in [1..k -> CategoryNames]} :
        /\ \A i \in DOMAIN CATEGORIES : kw[CATEGORIES[i].name] <= CATEGORIES[i].patterns
        /\ kw["casual"] <= 1}

\* Signal combinations a string can have.
SignalSets(b) ==
    {s \in SUBSET Signals :
        /\ Cardinality(s) = b
        /\ "emojiOnly" \in s => s \subseteq {"emojiOnly", "oneWord"}
        /\ "oneWord" \in s => "numberedList" \notin s}

\* What a message with n matches can match: kw[c] keyword patterns of
\* category c, the structural signals sig, qCount question marks, the extra
\* patterns xp.  An emoji-only message matches nothing else.
Features(n) ==
    {f \in UNION {
        [kw : KwCounts(a),
         sig : SignalSets(b),
         qCount : {q},
         xp : {x \in SUBSET ExtraPatternPool : Cardinality(x) = n - a - b - q}] :
        <<a, b, q>> \in {t \in (0..n) \X (0..n) \X (0..3) : t[1] + t[2] + t[3] <= n}} :
        "emojiOnly" \in f.sig => Cardinality(f.sig) = n}

\* The signals a string of trimmed length len has room for.
Fits(len, f) ==
    /\ "url" \in f.sig => len >= 8
    /\ "hexAddress" \in f.sig => len >= 12
    /\ "base58" \in f.sig => len >= 32
    /\ "sentences3" \in f.sig => len >= 20

\* The message of trimmed length len, with ws characters of surrounding
\* whitespace, that matches f.
MessageOf(len, ws, f) ==
    [len |-> len, ws |-> ws, kw |-> f.kw, sig |-> f.sig, qCount |-> f.qCount, xp |-> f.xp]

\* A match needs characters: a message with n matches is 2n long or longer.
\* Surrounding whitespace is put around the empty and the shortest messages.
MessagesWith(n) ==
    {m \in {MessageOf(len, ws, f) :
            len \in {l \in Lens : 2 * n <= l}, ws \in {0, 3}, f \in Features(n)} :
        /\ Fits(m.len, m)
        /\ m.ws # 0 => m.len <= 4}

\* A category without an override entry: every field absent.
NoOverride ==
    [disabled |-> FALSE, extraPatterns |-> <<>>, extraTools |-> <<>>, thinkingLevel |-> ""]

\* The override entries of the model: each sets one field.  thinkingLevel is
\* any string for the configuration schema; "turbo" is none of the levels,
\* "constructor" neither and the name of a member every object inherits.
OverrideChoices ==
    {[NoOverride EXCEPT !.disabled = TRUE]}
    \cup {[NoOverride EXCEPT !.extraPatterns = p] :
             p \in {<<"deploy-word">>, <<"(", "deploy-word">>}}
    \cup {[NoOverride EXCEPT !.extraTools = t] :
             t \in {<<"special_monitor">>, <<"message", "special_monitor">>}}
    \cup {[NoOverride EXCEPT !.thinkingLevel = l] :
             l \in {"minimal", "xhigh", "turbo", "constructor"}}

\* config.categories with at most one category overridden.
CategoryOverrides ==
    {[c \in CategoryNames |-> NoOverride]}
    \cup {[c \in CategoryNames |-> IF c = d THEN o ELSE NoOverride] :
             d \in CategoryNames, o \in OverrideChoices}

\* A toggle is TRUE for true and for undefined (the code tests `!== false`);
\* complexThreshold 300 is also the absent threshold (`?? 300`), alwaysInclude
\* <<>> the absent list.  The absent config is the one with every default.
\* Every combination of the switches without a category override, and at
\* most one switch off together with an override.
Configs ==
    {c \in [enabled : BOOLEAN, toolFiltering : BOOLEAN, memoryTuning : BOOLEAN,
            thinkingTuning : BOOLEAN, promptAnnotation : BOOLEAN,
            alwaysInclude : {<<>>, <<"message", "custom_tool">>},
            complexThreshold : {300, 50},
            categories : CategoryOverrides] :
        (\E d \in CategoryNames : c.categories[d] # NoOverride) =>
            Cardinality({t \in {"enabled", "toolFiltering", "memoryTuning",
                                "thinkingTuning", "promptAnnotation"} : ~c[t]}) <= 1}

\* The configurations that switch nothing off and override no category.
PlainConfigs ==
    [enabled : {TRUE}, toolFiltering : {TRUE}, memoryTuning : {TRUE},
     thinkingTuning : {TRUE}, promptAnnotation : {TRUE},
     alwaysInclude : {<<>>, <<"message", "custom_tool">>},
     complexThreshold : {300, 50},
     categories : {[c \in CategoryNames |-> NoOverride]}]

\* Long messages without surrounding whitespace or structural signal, one
\* match short of the bound.
PlainMessages ==
    {MessageOf(350, 0, f) : f \in
        {g \in UNION {Features(n) : n \in 0..(MaxHits - 1)} : g.sig = {} /\ g.qCount = 0}}

-----------------------------------------------------------------------------
(* Specification of the planner: one call of classifyMessage *)

\* Every message under the plain configurations, and the plain messages
\* under every configuration of the default complexThreshold.
Init ==
    /\ RecallUnused
    /\ PipelineUnused
    /\ RaceUnused
    /\ IngestUnused
    /\ pc = "ready"
    /\ plan = Null
    /\ calls = <<>>
    /\ fallbackPlan = FALLBACK_PLAN
    /\ \/ config \in PlainConfigs /\ \E n \in 0..MaxHits : message \in MessagesWith(n)
       \/ message \in PlainMessages /\ config \in Configs /\ config.complexThreshold = 300

Classify ==
    /\ pc = "ready"
    /\ plan' = Some(classifyMessage(message, config))
    /\ pc' = "done"
    /\ UNCHANGED <<message, config, calls, fallbackPlan>>
    /\ UNCHANGED <<recallVars, pipelineVars, ingestVars, raceVars>>

Next == Classify

Spec == Init /\ [][Next]_vars

-----------------------------------------------------------------------------
(* Specification of repeated calls of classifyMessage in one process *)

\* Most calls in one run.
MaxCalls == 3

\* Medium-length messages with one match: a keyword pattern of one
\* category, or a configured extra pattern.
CallMessages ==
    {m \in MessagesWith(1) : m.len = 60 /\ m.ws = 0 /\ m.sig = {} /\ m.qCount = 0}

CallConfigs == {c \in PlainConfigs : c.complexThreshold = 300}

CallsInit ==
    /\ RecallUnused
    /\ PipelineUnused
    /\ RaceUnused
    /\ IngestUnused
    /\ pc = "ready"
    /\ message = "none yet"
    /\ config = "none yet"
    /\ plan = Null
    /\ calls = <<>>
    /\ fallbackPlan = FALLBACK_PLAN

\* One more call: the module keeps nothing from one call to the next, so
\* the plan comes from the arguments alone.
CallClassify ==
    /\ Len(calls) < MaxCalls
    /\ \E m \in CallMessages, c \in CallConfigs :
          /\ message' = m
          /\ config' = c
          /\ plan' = Some(classifyMessage(m, c))
          /\ calls' = Append(calls, [message |-> m, config |-> c,
                                     plan |-> classifyMessage(m, c)])
    /\ pc' = "done"
    /\ UNCHANGED fallbackPlan
    /\ UNCHANGED <<recallVars, pipelineVars, ingestVars, raceVars>>

CallsNext == CallClassify

CallsSpec == CallsInit /\ [][CallsNext]_vars

-----------------------------------------------------------------------------
(* Properties of classifyMessage *)

Done == pc = "done"

\* The categories the returned plan was built from, recomputed from the inputs.
MatchedNow == matchedCategories(trim(message), config)

\* classifyMessage got past its three fallback returns.
Classified == Done /\ config.enabled /\ trim(message).len # 0 /\ MatchedNow # <<>>

SetMax(S) == CHOOSE x \in S : \A y \in S : y <= x

\* The thinking levels in the order the specification gives them.
LevelsInOrder == <<"off", "minimal", "low", "medium", "high", "xhigh">>

LevelIndex(l) == CHOOSE i \in DOMAIN LevelsInOrder : LevelsInOrder[i] = l

\* The level a matched category contributes: its override when one is
\* configured, its built-in level otherwise.
EffectiveLevels ==
    {IF config.categories[c.name].thinkingLevel # ""
     THEN config.categories[c.name].thinkingLevel
     ELSE c.thinking : c \in Range(MatchedNow)}

\* C1: with the master switch off, classifyMessage returns a plan with no
\* categories and a null tool allowlist, whatever the message and the rest
\* of the configuration.
C1_DisabledReturnsFallback ==
    (Done /\ ~config.enabled) =>
        /\ plan.val.categories = <<>>
        /\ plan.val.toolAllowlist = Null

\* A disabled run on a message that would have matched and been filtered.
C1_Witness ==
    /\ Done /\ ~config.enabled
    /\ trim(message).len # 0
    /\ MatchedNow # <<>>
    /\ config.toolFiltering
    /\ \A i \in DOMAIN MatchedNow : MatchedNow[i].tools # <<>>

\* hybridSearch returned null: timeout, non-success status or transport error.
SearchFailed == search \in {"aborted", "badStatus", "transport"}

HybridSearchRequests == {i \in DOMAIN requests : requests[i].endpoint = "hybrid-search"}

\* C2: when the hybrid-search call times out, gets a non-success status or
\* fails in transport, runMemoryCortexRecall returns {memoryContext: null,
\* factsCount: 0} after exactly one hybrid-search request, whatever the
\* session cache holds.
C2_FailedSearchReturnsNoContext ==
    (rpc = "returned" /\ SearchFailed) =>
        /\ returned = Some(noResult)
        /\ Cardinality(HybridSearchRequests) = 1

\* What the code does keep of C2 on a failed search: one request, no fact
\* counted, and a context only out of a cached synthesis.
C2_FailedSearchWithoutCache ==
    (rpc = "returned" /\ SearchFailed) =>
        /\ Cardinality(HybridSearchRequests) = 1
        /\ returned.val.factsCount = 0
        /\ params.cachedSynthesis.null => returned = Some(noResult)

\* A failed search in a session with a cached synthesis returns a context.
C2_FailedSearchWithCache ==
    /\ rpc = "returned" /\ SearchFailed
    /\ ~params.cachedSynthesis.null
    /\ ~returned.val.memoryContext.null

\* The tools the authorization and security policies allow, computed from
\* the policies themselves.
AuthorizedTools ==
    {t \in options.toolsByAuthorization :
        \A pol \in {options.globalPolicy, options.agentPolicy,
                    options.sandboxTools, options.subagentPolicy} :
            pol.null \/ allowedBy(pol.val, t)}

\* C3: a non-null plan allowlist is applied as the last filtering step,
\* after every authorization and security step, on exactly the tools those
\* steps left; the final tools are always among the tools they allowed, so
\* the plan removes tools and never re-admits a denied one.
C3_PlannerStepLastOnlyRemoves ==
    ppc = "done" =>
        /\ tools \subseteq AuthorizedTools
        /\ options.contextPlanToolAllowlist.null =>
             /\ tools = AuthorizedTools
             /\ \A i \in DOMAIN applied : applied[i].label # "context-planner"
        /\ ~options.contextPlanToolAllowlist.null =>
             /\ applied[Len(applied)].label = "context-planner"
             /\ \A i \in 1..(Len(applied) - 1) : applied[i].label # "context-planner"
             /\ applied[Len(applied) - 1].tools = AuthorizedTools
             /\ tools = AuthorizedTools \cap Range(options.contextPlanToolAllowlist.val)

\* The allowlist names a tool that an access policy denied, and removes a
\* tool those policies allowed.
C3_Witness ==
    /\ ppc = "done"
    /\ ~options.contextPlanToolAllowlist.null
    /\ \E t \in Range(options.contextPlanToolAllowlist.val) :
          t \in options.toolsByAuthorization /\ t \notin AuthorizedTools
    /\ tools # AuthorizedTools
    /\ tools # {}

\* C4: with tool filtering on and every matched category carrying a
\* non-empty tool list, the allowlist is the union, without duplicates, of
\* the matched categories' tools, their configured extraTools and the
\* alwaysInclude names; and any non-null allowlist holds every alwaysInclude
\* name.
C4_AllowlistIsUnion ==
    /\ (Classified /\ config.toolFiltering
          /\ \A i \in DOMAIN MatchedNow : MatchedNow[i].tools # <<>>) =>
        /\ ~plan.val.toolAllowlist.null
        /\ Range(plan.val.toolAllowlist.val) =
             UNION {Range(c.tools) \cup Range(config.categories[c.name].extraTools) :
                      c \in Range(MatchedNow)}
             \cup Range(config.alwaysInclude)
        /\ Cardinality(Range(plan.val.toolAllowlist.val)) = Len(plan.val.toolAllowlist.val)
    /\ (Done /\ ~plan.val.toolAllowlist.null) =>
        Range(config.alwaysInclude) \subseteq Range(plan.val.toolAllowlist.val)

\* Two restricted categories matched, one with extraTools, alwaysInclude
\* naming a tool no category lists.
C4_Witness ==
    /\ Classified /\ config.toolFiltering
    /\ Len(MatchedNow) >= 2
    /\ ~plan.val.toolAllowlist.null
    /\ \E c \in Range(MatchedNow) : config.categories[c.name].extraTools # <<>>
    /\ "custom_tool" \in Range(plan.val.toolAllowlist.val)

\* C5: when any matched category has an empty tool list, the allowlist is
\* null, whatever the other matched categories, extraTools and alwaysInclude.
C5_EmptyToolListUnrestricts ==
    (Classified /\ \E i \in DOMAIN MatchedNow : MatchedNow[i].tools = <<>>) =>
        plan.val.toolAllowlist = Null

\* complex matched together with a restricted category that has extraTools,
\* tool filtering on, alwaysInclude non-empty.
C5_Witness ==
    /\ Classified /\ config.toolFiltering
    /\ \E i \in DOMAIN MatchedNow : MatchedNow[i].tools = <<>>
    /\ \E i \in DOMAIN MatchedNow :
          /\ MatchedNow[i].tools # <<>>
          /\ config.categories[MatchedNow[i].name].extraTools # <<>>
    /\ config.alwaysInclude # <<>>
    /\ plan.val.toolAllowlist = Null

\* C6: with memory tuning on, the plan's maxFacts and maxTokens are each the
\* maximum of that field over the matched categories.
C6_MemoryLimitsAreMaxima ==
    (Classified /\ config.memoryTuning) =>
        /\ plan.val.memoryParams.maxFacts =
             SetMax({c.memory.maxFacts : c \in Range(MatchedNow)})
        /\ plan.val.memoryParams.maxTokens =
             SetMax({c.memory.maxTokens : c \in Range(MatchedNow)})

\* Two matched categories with different positive limits.
C6_Witness ==
    /\ Classified /\ config.memoryTuning
    /\ \E c, d \in Range(MatchedNow) :
          /\ 0 < c.memory.maxFacts /\ c.memory.maxFacts < d.memory.maxFacts
          /\ 0 < c.memory.maxTokens /\ c.memory.maxTokens < d.memory.maxTokens
          /\ plan.val.memoryParams.maxFacts = d.memory.maxFacts

\* C7: with memory tuning on, the plan asks to skip recall only when every
\* matched category asks to skip.
C7_SkipOnlyWhenAllSkip ==
    (Classified /\ config.memoryTuning) =>
        (plan.val.memoryParams.skip <=> \A c \in Range(MatchedNow) : c.memory.skip)

\* casual (skip) matched together with a category that wants recall.
C7_Witness ==
    /\ Classified /\ config.memoryTuning
    /\ \E c \in Range(MatchedNow) : c.memory.skip
    /\ \E c \in Range(MatchedNow) : ~c.memory.skip
    /\ ~plan.val.memoryParams.skip

\* C8: with thinking tuning on, and every contributed level one of the six
\* known levels, the plan's level is the highest, in the order off < minimal
\* < low < medium < high < xhigh, of the matched categories' levels, a
\* configured override replacing a category's built-in level.
C8_HighestThinkingLevel ==
    (Classified /\ config.thinkingTuning /\ EffectiveLevels \subseteq Range(LevelsInOrder)) =>
        /\ plan.val.thinkLevel \in EffectiveLevels
        /\ \A l \in EffectiveLevels : LevelIndex(l) <= LevelIndex(plan.val.thinkLevel)

\* Two matched categories, one with an override below its built-in level
\* that still ends up the highest.
C8_Witness ==
    /\ Classified /\ config.thinkingTuning
    /\ Len(MatchedNow) >= 2
    /\ \E c \in Range(MatchedNow) :
          /\ config.categories[c.name].thinkingLevel = "minimal"
          /\ LevelIndex(c.thinking) > LevelIndex("minimal")
    /\ plan.val.thinkLevel = "minimal"

\* C9: when the trimmed message is empty or no category reaches its
\* threshold, the plan is the fallback: no categories, null allowlist,
\* thinking "low", memory 15 facts / 500 tokens / no skip, no hint.
C9_FallbackWhenNothingMatches ==
    (Done /\ (trim(message).len = 0 \/ MatchedNow = <<>>)) =>
        plan.val = [categories |-> <<>>,
                    toolAllowlist |-> Null,
                    thinkLevel |-> "low",
                    memoryParams |-> [maxFacts |-> 15, maxTokens |-> 500, skip |-> FALSE],
                    hint |-> Null]

\* An enabled run on a non-empty message that matches a pattern without
\* any category reaching its threshold.
C9_Witness ==
    /\ Done /\ config.enabled
    /\ trim(message).len # 0
    /\ \E c \in CategoryNames : message.kw[c] > 0
    /\ MatchedNow = <<>>

\* The plan the same call returns with toggle t switched on.
PlanWith(t) == classifyMessage(message, [config EXCEPT ![t] = TRUE])

\* C10: each toggle that is off turns off only its own part of the plan:
\* toolFiltering off gives a null allowlist, memoryTuning off the default
\* memory policy, thinkingTuning off "low", promptAnnotation off no hint;
\* the categories and the fields of the other toggles are what they are
\* with the toggle on.
C10_TogglesAreIndependent ==
    Classified =>
        LET p == plan.val
            filtering == PlanWith("toolFiltering")
            memory == PlanWith("memoryTuning")
            thinking == PlanWith("thinkingTuning")
            annotation == PlanWith("promptAnnotation")
        IN /\ ~config.toolFiltering =>
                /\ p.toolAllowlist = Null
                /\ p.categories = filtering.categories
                /\ p.memoryParams = filtering.memoryParams
                /\ p.thinkLevel = filtering.thinkLevel
                /\ p.hint.null = filtering.hint.null
           /\ ~config.memoryTuning =>
                /\ p.memoryParams = [maxFacts |-> 15, maxTokens |-> 500, skip |-> FALSE]
                /\ p.categories = memory.categories
                /\ p.toolAllowlist = memory.toolAllowlist
                /\ p.thinkLevel = memory.thinkLevel
                /\ p.hint = memory.hint
           /\ ~config.thinkingTuning =>
                /\ p.thinkLevel = "low"
                /\ p.categories = thinking.categories
                /\ p.toolAllowlist = thinking.toolAllowlist
                /\ p.memoryParams = thinking.memoryParams
                /\ p.hint.null = thinking.hint.null
           /\ ~config.promptAnnotation =>
                /\ p.hint = Null
                /\ p.categories = annotation.categories
                /\ p.toolAllowlist = annotation.toolAllowlist
                /\ p.memoryParams = annotation.memoryParams
                /\ p.thinkLevel = annotation.thinkLevel

\* Only thinking tuning is off, on a match whose tuned level is not "low"
\* and whose other fields all differ from the fallback's.
C10_Witness ==
    /\ Classified
    /\ ~config.thinkingTuning
    /\ config.toolFiltering /\ config.memoryTuning /\ config.promptAnnotation
    /\ PlanWith("thinkingTuning").thinkLevel # "low"
    /\ plan.val.thinkLevel = "low"
    /\ plan.val.toolAllowlist # Null
    /\ plan.val.memoryParams # [maxFacts |-> 15, maxTokens |-> 500, skip |-> FALSE]
    /\ plan.val.hint # Null

RecalledAndReturned == rpc = "returned" /\ ~frame.null

\* The session's cached synthesis, read at the time the context block was
\* formatted, was as old as its TTL or older.
CacheExpired ==
    /\ ~params.cachedSynthesis.null
    /\ frame.val.dateNow - params.cachedSynthesis.val.cachedAt
          >= OrElse(mc.synthesisCacheTtlMs, DefaultSynthesisCacheTtlMs)

\* What the same recall returns for a session with no cached synthesis.
ReturnWithoutCache ==
    [memoryContext |->
        orNull(recallMemoryContext(frame.val.facts, mc,
                                   [params EXCEPT !.cachedSynthesis = Null],
                                   frame.val.dateNow)),
     factsCount |-> Len(frame.val.facts)]

\* C12: an expired cached synthesis is treated as absent: for every list of
\* facts the search returned, the empty list included, the recall returns the
\* {memoryContext, factsCount} it returns for a session with no cached
\* synthesis.
C12_ExpiredCacheIsAbsent ==
    (RecalledAndReturned /\ CacheExpired) => returned = Some(ReturnWithoutCache)

\* An expired cache and an empty fact list: the recall returns a context
\* block, the bare header, where a session without cache gets null.
C12_ExpiredCacheEmptyFacts ==
    /\ RecalledAndReturned /\ CacheExpired
    /\ search = "ok" /\ frame.val.facts = <<>>
    /\ returned.val.factsCount = 0
    /\ ~returned.val.memoryContext.null
    /\ ReturnWithoutCache = noResult

\* The session's cached synthesis was younger than its TTL when the context
\* block was formatted.
CacheFresh == ~params.cachedSynthesis.null /\ ~CacheExpired

\* The summary line of the session's cached narrative, whole.
SummaryLine == Line("summary", 0, 37 + params.cachedSynthesis.val.response.len)

\* The returned block holds the whole summary line, above every fact line.
NarrativeBeforeFacts ==
    /\ ~returned.val.memoryContext.null
    /\ LET block == returned.val.memoryContext.val
       IN \E i \in DOMAIN block :
             /\ block[i] = SummaryLine
             /\ \A j \in DOMAIN block : block[j].kind = "fact" => i < j

\* The character budget leaves room for the header and the summary line.
SummaryFitsBudget ==
    TextLength(<<Line("header", 0, 21), Line("blank", 0, 0), SummaryLine>>)
        <= OrElse(mc.recallMaxTokens, DefaultRecallMaxTokens) * CharsPerToken

\* C13 as stated: a turn of a session whose cache holds the narrative of an
\* earlier turn's synthesis, younger than the TTL, returns a context block
\* that contains the narrative before every bulleted fact line.
C13_CachedNarrativeBeforeFacts ==
    (RecalledAndReturned /\ CacheFresh) => NarrativeBeforeFacts

\* C13, amended: the narrative is there, whole and before every fact line,
\* when the recall is not skipped and the character budget has room for the
\* header and the summary line; under a smaller budget the block is cut
\* before the first fact line.
C13_NarrativeBeforeFactsWithinBudget ==
    (RecalledAndReturned /\ CacheFresh) =>
        IF SummaryFitsBudget
        THEN NarrativeBeforeFacts
        ELSE \/ returned.val.memoryContext.null
             \/ \A j \in DOMAIN returned.val.memoryContext.val :
                   returned.val.memoryContext.val[j].kind # "fact"

\* A fresh cache, two facts found, and a block with the narrative above both
\* fact lines.
C13_Witness ==
    /\ RecalledAndReturned /\ CacheFresh /\ SummaryFitsBudget
    /\ search = "ok" /\ Len(frame.val.facts) = 2
    /\ NarrativeBeforeFacts
    /\ Cardinality({j \in DOMAIN returned.val.memoryContext.val :
                       returned.val.memoryContext.val[j].kind = "fact"}) = 2

\* The plan of the turn tells the recall to skip.
PlanSkips == ~plan.null /\ plan.val.memoryParams.skip

\* C14: when the turn's plan has memoryParams.skip = true, the recall returns
\* no context and sends no request to the memory service, neither
\* hybrid-search nor deep synthesis.
C14_SkipPlanSendsNothing ==
    PlanSkips =>
        /\ requests = <<>>
        /\ rpc = "returned" => returned = Some(noResult)

\* A greeting classified as casual only, whose plan says skip: the recall
\* sends both requests and returns a context with the facts found.
C14_SkipPlanStillRecalls ==
    /\ PlanSkips /\ plan.val.categories = <<"casual">>
    /\ rpc = "returned"
    /\ \E i \in DOMAIN requests : requests[i].endpoint = "hybrid-search"
    /\ \E i \in DOMAIN requests : requests[i].endpoint = "recall"
    /\ returned.val.factsCount > 0
    /\ ~returned.val.memoryContext.null

\* The session cache as the turn found it.
StoreAtCall ==
    [memoryCortexSynthesis |-> params.cachedSynthesis,
     memoryCortexRecalledAt |-> Null,
     memoryCortexFactsInjected |-> Null]

\* C15: with the memory service or auto-recall disabled, on a heartbeat run
\* unless skipHeartbeat is explicitly false, or with a trimmed message of
\* fewer than 3 characters, runMemoryCortexRecall returns {null, 0} and has
\* no effect: no hybrid-search request, no synthesis started, the session
\* cache (synthesis, last-recall timestamp, fact count) unchanged.
C15_GuardedRecallHasNoEffect ==
    (\/ ~mc.enabled
     \/ ~mc.autoRecall
     \/ params.isHeartbeat /\ mc.skipHeartbeat
     \/ trim(message).len < 3) =>
        /\ requests = <<>>
        /\ synthesis = "none"
        /\ frame = Null
        /\ store = StoreAtCall
        /\ rpc \in {"idle", "returned"}
        /\ rpc = "returned" => returned = Some(noResult)

\* A heartbeat run of a session with a cache and a message long enough for
\* the search and the synthesis, with the service on: returned, nothing sent.
C15_Witness ==
    /\ rpc = "returned"
    /\ mc.enabled /\ mc.autoRecall
    /\ params.isHeartbeat /\ mc.skipHeartbeat
    /\ trim(message).len >= MinSynthesisQueryLength
    /\ hasStore(params) /\ ~params.cachedSynthesis.null
    /\ returned = Some(noResult)
    /\ requests = <<>> /\ store = StoreAtCall

\* The other guards each return the same way.
C15_ShortMessageWitness ==
    /\ rpc = "returned"
    /\ mc.enabled /\ mc.autoRecall /\ ~params.isHeartbeat
    /\ trim(message).len < 3
    /\ returned = Some(noResult) /\ requests = <<>>

\* The turn has a plan that does not skip, and the recall sent its search.
PlannedSearchSent ==
    /\ ~plan.null /\ ~plan.val.memoryParams.skip
    /\ HybridSearchRequests # {}

\* The memoryContext the recall returns when the block is cut to the plan's
\* maxTokens.
ContextUnderPlanBudget ==
    IF Len(frame.val.facts) > 0 \/ ~params.cachedSynthesis.null
    THEN orNull(Some(formatFactsAsContext(frame.val.facts,
                                          plan.val.memoryParams.maxTokens,
                                          params.cachedSynthesis,
                                          mc.synthesisCacheTtlMs,
                                          frame.val.dateNow)))
    ELSE Null

\* C16: for a turn whose recall is not skipped, the limit of the single
\* hybrid-search request is the plan's memoryParams.maxFacts, and the
\* character budget of the context block is 4 characters per token of the
\* plan's memoryParams.maxTokens, not a per-deployment value.
C16_LimitsComeFromPlan ==
    PlannedSearchSent =>
        /\ Cardinality(HybridSearchRequests) = 1
        /\ \A i \in HybridSearchRequests : requests[i].limit = plan.val.memoryParams.maxFacts
        /\ RecalledAndReturned => returned.val.memoryContext = ContextUnderPlanBudget

\* A question about something remembered, planned with more facts and
\* tokens than the deployment configures: the search asks for the
\* deployment's recallMaxFacts and the block is cut to its recallMaxTokens.
C16_DeploymentLimitsApplied ==
    /\ PlannedSearchSent /\ RecalledAndReturned
    /\ "memory" \in Range(plan.val.categories)
    /\ plan.val.memoryParams.maxFacts > DefaultRecallMaxFacts
    /\ plan.val.memoryParams.maxTokens > DefaultRecallMaxTokens
    /\ mc.recallMaxFacts = Some(1) /\ mc.recallMaxTokens = Some(10)
    /\ requests[1] = [endpoint |-> "hybrid-search", limit |-> 1, timeoutMs |-> 200]
    /\ search = "ok" /\ frame.val.factsCount > 0
    /\ returned.val.memoryContext # ContextUnderPlanBudget
    /\ TextLength(returned.val.memoryContext.val) = 10 * CharsPerToken

\* The cache entry fireAsyncSynthesis writes for this turn: the turn's query,
\* the narrative, and the clock of the write, which is no earlier than the
\* recall's formatting and no later than now.
CacheHoldsThisTurn ==
    /\ ~store.memoryCortexSynthesis.null
    /\ store.memoryCortexSynthesis.val.query = "this turn"
    /\ store.memoryCortexSynthesis.val.response = [id |-> "new narrative", len |-> 40]
    /\ store.memoryCortexSynthesis.val.cachedAt \in Times
    /\ store.memoryCortexSynthesis.val.cachedAt >= frame.val.dateNow
    /\ store.memoryCortexSynthesis.val.cachedAt <= now

\* The cached synthesis is the one the turn found: same query, narrative and
\* cachedAt, or none as before.
CacheAsBefore == store.memoryCortexSynthesis = params.cachedSynthesis

C17_FailureWitness ==
    /\ synthesis = "dropped" /\ ~params.cachedSynthesis.null /\ CacheAsBefore

\* The result as the search answer, the configuration and the session entry
\* passed in determine it.
ReturnFromSearch ==
    [memoryContext |->
        orNull(recallMemoryContext(frame.val.facts, mc, params, frame.val.dateNow)),
     factsCount |-> Len(frame.val.facts)]

\* C18: the result of a recall never depends on the same turn's background
\* synthesis: whether the deep-synthesis call succeeds, fails, or completes
\* before or after the recall returns, the returned {memoryContext,
\* factsCount} is the same.
C18_ReturnIndependentOfSynthesis ==
    RecalledAndReturned => returned = Some(ReturnFromSearch)

\* The synthesis of this turn was cached before the recall returned, in a
\* session that had an older cached narrative, and the recall returned a
\* context.
C18_Witness ==
    /\ RecalledAndReturned
    /\ synthesis = "cached" /\ CacheHoldsThisTurn
    /\ ~params.cachedSynthesis.null
    /\ ~store.memoryCortexRecalledAt.null
    /\ store.memoryCortexSynthesis.val.cachedAt < store.memoryCortexRecalledAt.val
    /\ ~returned.val.memoryContext.null
    /\ returned.val.factsCount > 0

\* The synthesis failed, or is still in flight, after the recall returned.
C18_LateOrFailedWitness ==
    /\ RecalledAndReturned /\ synthesis \in {"inflight", "dropped"}
    /\ ~returned.val.memoryContext.null

IngestRequests == {i \in DOMAIN requests : requests[i].endpoint = "ingest"}

\* The ingestion is not skipped: the service and auto-ingest are on, the
\* run is no heartbeat (or heartbeats are explicitly allowed), and the
\* session file is there, readable, and holds a message.
IngestDue ==
    /\ mc.enabled /\ mc.autoIngest
    /\ ~(iparams.isHeartbeat /\ mc.skipHeartbeat)
    /\ ~iparams.sessionFile.null
    /\ iparams.sessionFile.val.readable
    /\ collectMessages(iparams.sessionFile.val.lines) # <<>>

\* C20: an ingestion trigger that is not skipped dispatches exactly one
\* ingest request, carrying the transcript and the debounce hint; when the
\* request times out, gets a non-success status or fails in transport, or
\* the timestamp write fails, nothing is thrown or rejected to the caller
\* and no second ingest request is sent.
C20_OneIngestRequestErrorsAbsorbed ==
    (IngestDue /\ ipc # "idle") =>
        /\ ipc = "returned"
        /\ Cardinality(IngestRequests) = 1
        /\ \A i \in IngestRequests :
              /\ requests[i].messages = collectMessages(iparams.sessionFile.val.lines)
              /\ requests[i].debounce
        /\ ingestCall \in {"inflight", "ok", "badStatus", "transport", "timeout"}

\* A transcript of two messages was sent once; the request timed out and
\* the timestamp write failed.
C20_Witness ==
    /\ IngestDue /\ ipc = "returned"
    /\ ingestCall = "timeout" /\ ingestWrite = "failed"
    /\ Cardinality(IngestRequests) = 1
    /\ Len(requests[1].messages) = 2
    /\ requests[1].debounce
    /\ store.memoryCortexIngestedAt \in {Null, Some(100000)}

\* C19: neither background task is joined on the response path: the recall
\* that is about to return can return whatever the state of its synthesis
\* call, the ingestion can start and return whatever the state of the
\* synthesis, and whenever an ingest request or a timestamp write of the
\* ingestion exists, runMemoryCortexIngestionIfNeeded has already returned.
C19_BackgroundTasksNeverJoined ==
    /\ rpc = "persisting" => ENABLED PersistRecallMetadata
    /\ (rpc = "returned" /\ ipc = "idle") => ENABLED IngestStart
    /\ (ingestCall # "none" \/ ingestWrite # "none") => ipc = "returned"

\* The turn has ended, recall and ingestion both returned, with the
\* synthesis call, the ingest request and the timestamp write in flight.
C19_Witness ==
    /\ rpc = "returned" /\ ~returned.val.memoryContext.null
    /\ ipc = "returned"
    /\ synthesis = "inflight"
    /\ ingestCall = "inflight"
    /\ ingestWrite = "inflight"

\* The three tasks completed after both functions had returned: the cache
\* and the ingest timestamp are stamped later than the recall.
C19_CompletedAfterTurn ==
    /\ rpc = "returned" /\ ipc = "returned"
    /\ synthesis = "cached" /\ ingestCall = "ok" /\ ingestWrite = "ok"
    /\ ~store.memoryCortexRecalledAt.null
    /\ store.memoryCortexSynthesis.val.cachedAt > store.memoryCortexRecalledAt.val
    /\ ~store.memoryCortexIngestedAt.null
    /\ store.memoryCortexIngestedAt.val > store.memoryCortexRecalledAt.val

\* C21: a skipped ingestion (service or auto-ingest off, a heartbeat run
\* unless skipHeartbeat is explicitly false, no session file, a file that is
\* unreadable or yields no message) sends no ingest request and leaves the
\* last-ingest timestamp as it was; and the timestamp is written only in a
\* turn that dispatched an ingest request.
C21_SkippedIngestionHasNoEffect ==
    /\ ~IngestDue =>
          /\ IngestRequests = {}
          /\ ingestCall = "none" /\ ingestWrite = "none"
          /\ store.memoryCortexIngestedAt \in EarlierIngestTimes
    /\ store.memoryCortexIngestedAt \notin EarlierIngestTimes =>
          /\ IngestRequests # {}
          /\ ingestWrite = "ok"

\* The service is on and the run is no heartbeat, but the two lines of the
\* session file give no message: returned, nothing sent, timestamp as before.
C21_Witness ==
    /\ ipc = "returned"
    /\ mc.enabled /\ mc.autoIngest /\ ~iparams.isHeartbeat
    /\ iparams.storePath /\ iparams.sessionKey
    /\ ~iparams.sessionFile.null /\ iparams.sessionFile.val.readable
    /\ Len(iparams.sessionFile.val.lines) = 2
    /\ \E i \in 1..2 : iparams.sessionFile.val.lines[i].kind = "message"
    /\ ~IngestDue
    /\ requests = <<>>
    /\ store.memoryCortexIngestedAt = Some(100000)

\* The timestamp was written, in a turn that sent its ingest request.
C21_WrittenWitness ==
    /\ IngestDue /\ ingestWrite = "ok" /\ IngestRequests # {}
    /\ store.memoryCortexIngestedAt \notin EarlierIngestTimes

\* C22: a recall against a memory service that never answers eventually
\* returns, and returns no context: the hard timeout cancels the
\* hybrid-search request and the recall returns {null, 0}.
C22_UnansweredRecallReturnsNoContext ==
    <>(rpc = "returned" /\ returned = Some(noResult))

\* What the code keeps of C22: the recall always returns, after at most one
\* hybrid-search request, which the timer aborted.
C22_UnansweredRecallReturns ==
    <>(/\ rpc = "returned"
       /\ Cardinality(HybridSearchRequests) <= 1
       /\ HybridSearchRequests # {} => search = "aborted")

\* The timer aborted the search of a session with a cached synthesis, and
\* the recall returned a context block.
C22_TimedOutWithCache ==
    /\ rpc = "returned" /\ search = "aborted"
    /\ ~params.cachedSynthesis.null
    /\ returned.val.factsCount = 0
    /\ ~returned.val.memoryContext.null

\* C24: the hybrid-search call is the only suspension point of
\* runMemoryCortexRecall: once the search has ended the result is returned,
\* without waiting for the recall-metadata write to the session store or
\* for the synthesis call.
C24_SearchIsTheOnlySuspension ==
    search # "none" => (rpc = "returned" /\ ~returned.null)

\* The search has answered and the context block is formatted, but the
\* recall has not returned: it is suspended on the write of the recall
\* metadata, which has not ended.
C24_SuspendedOnStoreWrite ==
    /\ rpc = "persisting" /\ search = "ok"
    /\ ~frame.null /\ ~frame.val.memoryContext.null
    /\ returned = Null
    /\ hasStore(params)
    /\ store.memoryCortexRecalledAt = Null
    /\ ENABLED PersistRecallMetadata

\* The character budget the recall applies to the block.
AppliedBudget == OrElse(mc.recallMaxTokens, DefaultRecallMaxTokens) * CharsPerToken

\* The characters of the block before the cut: header, blank line, summary
\* and blank line when the cache is fresh, facts header and fact lines.
RenderedLength ==
    LET summary == IF CacheFresh THEN <<SummaryLine, Line("blank", 0, 0)>> ELSE <<>>
        factLines == IF frame.val.facts = <<>> THEN <<>>
                     ELSE <<Line("factsHeader", 0, 21)>>
                            \o [i \in DOMAIN frame.val.facts |-> factLine(frame.val.facts[i])]
    IN TextLength(<<Line("header", 0, 21), Line("blank", 0, 0)>> \o summary \o factLines)

\* C25: the context block a recall returns is never longer than 4
\* characters per token of the budget applied; the cut is a hard one, made
\* on the rendered block, so a longer rendering is returned at exactly the
\* budget; and a budget of 0 yields a null context block.
C25_BlockWithinBudget ==
    RecalledAndReturned =>
        /\ AppliedBudget = 0 => returned.val.memoryContext.null
        /\ ~returned.val.memoryContext.null =>
              /\ TextLength(returned.val.memoryContext.val) <= AppliedBudget
              /\ TextLength(returned.val.memoryContext.val) =
                    IF RenderedLength > AppliedBudget THEN AppliedBudget ELSE RenderedLength

\* Two facts and a fresh summary under a budget of 10 tokens: the block
\* returned is 40 characters long, cut inside the summary line.
C25_Witness ==
    /\ RecalledAndReturned /\ CacheFresh
    /\ Len(frame.val.facts) = 2
    /\ mc.recallMaxTokens = Some(10)
    /\ RenderedLength > AppliedBudget
    /\ TextLength(returned.val.memoryContext.val) = 40

\* Facts found under a budget of 0: null, with the facts counted.
C25_ZeroBudgetWitness ==
    /\ RecalledAndReturned /\ mc.recallMaxTokens = Some(0)
    /\ returned.val.factsCount = 2
    /\ returned.val.memoryContext.null

\* The categories whose extraPatterns hold a malformed pattern.
WithMalformed ==
    {c \in CategoryNames :
        \E i \in DOMAIN config.categories[c].extraPatterns :
            config.categories[c].extraPatterns[i] \in MalformedPatterns}

\* The configuration with the malformed patterns taken out.
WithoutMalformed ==
    [config EXCEPT !.categories =
        [c \in CategoryNames |->
            [config.categories[c] EXCEPT !.extraPatterns =
                SelectSeq(config.categories[c].extraPatterns,
                          LAMBDA p : p \notin MalformedPatterns)]]]

\* C26: a malformed regular expression among a category's extraPatterns
\* does not abort the classification: a plan is returned, every category
\* scores what it scores with the malformed pattern removed (the valid
\* extra patterns still count), and so the plan is the same.
C26_MalformedPatternIsSkipped ==
    (Done /\ WithMalformed # {}) =>
        /\ ~plan.null
        /\ \A i \in DOMAIN CATEGORIES :
              scoreCategory(trim(message), CATEGORIES[i], config)
                 = scoreCategory(trim(message), CATEGORIES[i], WithoutMalformed)
        /\ plan.val = classifyMessage(message, WithoutMalformed)

\* A category with a malformed pattern followed by a valid one, matched by
\* the message through the valid pattern alone.
C26_Witness ==
    /\ Done /\ config.enabled
    /\ \E c \in WithMalformed :
          /\ config.categories[c].extraPatterns = <<"(", "deploy-word">>
          /\ "deploy-word" \in message.xp
          /\ message.kw[c] = 0
          /\ c \in Range(plan.val.categories)
          /\ scoreCategory(trim(message), CategoryOf(c), config) = CategoryOf(c).matchWeight

\* C27: a message whose trimmed length is below complexThreshold is never
\* classified as complex.
C27_ShortMessageNeverComplex ==
    (Done /\ ~plan.null /\ trim(message).len < config.complexThreshold) =>
        "complex" \notin Range(plan.val.categories)

\* A message of 250 characters, under the default threshold of 300, that
\* matches the three keyword patterns of complex: it scores 6 + 1 - 3 = 4,
\* is classified as complex, and gets every tool and the level "high".
C27_ShortMessageComplex ==
    /\ Done /\ config.enabled /\ config.complexThreshold = 300
    /\ trim(message).len = 250
    /\ message.kw["complex"] = 3
    /\ scoreCategory(trim(message), CategoryOf("complex"), config) = 4
    /\ plan.val.categories = <<"complex">>
    /\ plan.val.toolAllowlist = Null
    /\ plan.val.thinkLevel = "high"

-----------------------------------------------------------------------------
(* Specification of callers that edit the plans classifyMessage handed them *)

\* Most calls in one run of a plan-editing caller.
MaxSharedCalls == 2

\* The call leaves through one of the three `return { ...FALLBACK_PLAN }`.
returnsFallback(m, cfg) ==
    \/ ~cfg.enabled
    \/ trim(m).len = 0
    \/ Len(matchedCategories(trim(m), cfg)) = 0

\* The returned plan's memoryParams is the module's own object: the spread
\* copies the reference, and so does `: FALLBACK_PLAN.memoryParams`.
sharesMemoryParams(m, cfg) == returnsFallback(m, cfg) \/ ~cfg.memoryTuning

\* The plan as the caller reads it when the module's FALLBACK_PLAN holds
\* `fallback`: the spread copies the top-level fields, the categories array
\* and the memoryParams object behind them are the module's.
classifyMessageFrom(fallback, m, cfg) ==
    IF returnsFallback(m, cfg) THEN fallback
    ELSE IF ~cfg.memoryTuning
         THEN [classifyMessage(m, cfg) EXCEPT !.memoryParams = fallback.memoryParams]
         ELSE classifyMessage(m, cfg)

\* The assignments a caller makes to a plan: plan.memoryParams.maxFacts = 0,
\* plan.memoryParams.skip = true, plan.categories.push("edited"),
\* plan.thinkLevel = "off".
PlanEdits == {"maxFacts", "skip", "categories", "thinkLevel"}

editPlan(p, e) ==
    CASE e = "maxFacts" -> [p EXCEPT !.memoryParams.maxFacts = 0]
      [] e = "skip" -> [p EXCEPT !.memoryParams.skip = TRUE]
      [] e = "categories" ->
            IF \E i \in DOMAIN p.categories : p.categories[i] = "edited" THEN p
            ELSE [p EXCEPT !.categories = Append(@, "edited")]
      [] e = "thinkLevel" -> [p EXCEPT !.thinkLevel = "off"]

\* The object the assignment writes to is the module's.
reachesModule(e, m, cfg) ==
    CASE e \in {"maxFacts", "skip"} -> sharesMemoryParams(m, cfg)
      [] e = "categories" -> returnsFallback(m, cfg)
      [] OTHER -> FALSE

\* The default configuration, and it with memoryTuning or enabled off.
ShareConfigs ==
    {c \in Configs :
        /\ c.alwaysInclude = <<>> /\ c.complexThreshold = 300
        /\ c.categories = [d \in CategoryNames |-> NoOverride]
        /\ c.toolFiltering /\ c.thinkingTuning /\ c.promptAnnotation
        /\ ~(~c.enabled /\ ~c.memoryTuning)}

SharedInit == CallsInit

SharedClassify ==
    /\ Len(calls) < MaxSharedCalls
    /\ \E m \in CallMessages, c \in ShareConfigs :
          /\ message' = m
          /\ config' = c
          /\ plan' = Some(classifyMessageFrom(fallbackPlan, m, c))
          /\ calls' = Append(calls, [message |-> m, config |-> c,
                                     plan |-> classifyMessageFrom(fallbackPlan, m, c)])
    /\ pc' = "done"
    /\ UNCHANGED fallbackPlan
    /\ UNCHANGED <<recallVars, pipelineVars, ingestVars, raceVars>>

\* The caller assigns to a field of the plan the last call returned.
CallerEditsPlan ==
    /\ ~plan.null
    /\ \E e \in PlanEdits :
          /\ editPlan(plan.val, e) # plan.val
          /\ plan' = Some(editPlan(plan.val, e))
          /\ fallbackPlan' = IF reachesModule(e, message, config)
                             THEN editPlan(fallbackPlan, e)
                             ELSE fallbackPlan
    /\ UNCHANGED <<pc, message, config, calls>>
    /\ UNCHANGED <<recallVars, pipelineVars, ingestVars, raceVars>>

SharedNext == SharedClassify \/ CallerEditsPlan

SharedSpec == SharedInit /\ [][SharedNext]_vars

\* C28: plans share no mutable state with each other or with the module:
\* whatever a caller assigned to the plans it was handed, every call
\* returned the plan its arguments alone determine, the fallback plan and
\* the memoryTuning = false plan with maxFacts 15, maxTokens 500, skip false.
C28_PlansShareNoState ==
    \A i \in DOMAIN calls :
        /\ calls[i].plan = classifyMessage(calls[i].message, calls[i].config)
        /\ (~calls[i].config.enabled \/ ~calls[i].config.memoryTuning) =>
              calls[i].plan.memoryParams = [maxFacts |-> 15, maxTokens |-> 500, skip |-> FALSE]

\* A fallback plan returned after a caller zeroed maxFacts of an earlier
\* fallback plan carries the zero.
C28_EditedFallbackReturned ==
    /\ Len(calls) = 2
    /\ ~calls[1].config.enabled /\ ~calls[2].config.enabled
    /\ calls[1].plan.memoryParams.maxFacts = 15
    /\ calls[2].plan.memoryParams.maxFacts = 0

-----------------------------------------------------------------------------
(* Specification of two turns of one session whose cache writes interleave *)

\* The turns, in the order they start.
Turn == {1, 2}

\* The object each write's update callback returns.
recallMetadataPatch(dateNow, factsCount) ==
    [memoryCortexRecalledAt |-> Some(dateNow),
     memoryCortexFactsInjected |-> Some(factsCount)]

synthesisPatch(query, response, dateNow) ==
    [memoryCortexSynthesis |->
        Some([query |-> query, response |-> response, cachedAt |-> dateNow])]

ingestPatch(dateNow) == [memoryCortexIngestedAt |-> Some(dateNow)]

\* Faulty variant: the entry is replaced by the patch, the fields the patch
\* does not name are lost.
replaceSessionEntry(entry, patch) ==
    [f \in DOMAIN entry |-> IF f \in DOMAIN patch THEN patch[f] ELSE Null]

\* updateSessionStoreEntry: the fields the update callback returned are
\* written over the entry of the session, in one step.
updateSessionStoreEntry(entry, patch) ==
    [f \in DOMAIN entry |-> IF f \in DOMAIN patch THEN patch[f] ELSE entry[f]]

\* The entry as earlier turns left it: nothing cached, or every field set.
RaceEntries ==
    {SessionEntryWith(Null, Null),
     [memoryCortexSynthesis |->
          Some([query |-> 0, response |-> [id |-> 0, len |-> 30], cachedAt |-> 100000]),
      memoryCortexRecalledAt |-> Some(100000),
      memoryCortexFactsInjected |-> Some(1),
      memoryCortexIngestedAt |-> Some(100000)]}

\* A turn that has not started.  sessionEntry is the params.sessionEntry
\* the turn is given, each "Wrote" the patch its write stored (Null: none).
FreshTurn ==
    [rpc |-> "idle", factsCount |-> 0, synthesis |-> "none", ingestWrite |-> "none",
     sessionEntry |-> Null, overlapped |-> FALSE,
     recallWrote |-> Null, synthesisWrote |-> Null, ingestWrote |-> Null]

RaceInit ==
    /\ PlannerUnused
    /\ PipelineUnused
    /\ IngestUnused
    /\ rpc = "unused" /\ mc = "unused" /\ params = "unused"
    /\ requests = <<>> /\ search = "none" /\ frame = Null
    /\ synthesis = "none" /\ returned = Null
    /\ now = 300000
    /\ store \in RaceEntries
    /\ turns = [t \in Turn |-> FreshTurn]

RaceUnchanged ==
    /\ UNCHANGED <<rpc, mc, params, requests, search, frame, synthesis, returned>>
    /\ UNCHANGED <<plannerVars, pipelineVars, ingestVars>>

\* runMemoryCortexRecall of turn t up to its await of hybridSearch; every
\* guard passes and the query has ten characters or more.
RaceRecallStart(t) ==
    /\ turns[t].rpc = "idle"
    /\ \A u \in Turn : u < t => turns[u].rpc # "idle"
    /\ turns' = [turns EXCEPT ![t].rpc = "searching",
                              ![t].sessionEntry = Some(store),
                              ![t].overlapped =
                                  \E u \in Turn : u < t /\ turns[u].rpc # "returned"]
    /\ UNCHANGED <<store, now>>
    /\ RaceUnchanged

\* The search settles: the facts are counted, the synthesis is fired and
\* the turn awaits its recall-metadata write.
RaceSearchEnds(t) ==
    /\ turns[t].rpc = "searching"
    /\ \E n \in {0, MaxFacts} :
          turns' = [turns EXCEPT ![t].rpc = "persisting",
                                 ![t].factsCount = n,
                                 ![t].synthesis = "inflight"]
    /\ UNCHANGED <<store, now>>
    /\ RaceUnchanged

\* The recall-metadata write, which may fail (caught); the recall returns.
RacePersistRecallMetadata(t) ==
    /\ turns[t].rpc = "persisting"
    /\ \E ok \in BOOLEAN :
          LET patch == recallMetadataPatch(now, turns[t].factsCount)
          IN /\ store' = IF ok THEN updateSessionStoreEntry(store, patch) ELSE store
             /\ turns' = [turns EXCEPT ![t].rpc = "returned",
                                       ![t].recallWrote = IF ok THEN Some(patch) ELSE Null]
    /\ UNCHANGED now
    /\ RaceUnchanged

\* recall() of turn t resolves, with a narrative or without.
RaceSynthesisResponds(t) ==
    /\ turns[t].synthesis = "inflight"
    /\ \E outcome \in {"narrative", "none"} :
          turns' = [turns EXCEPT ![t].synthesis =
                        IF outcome = "narrative" THEN "caching" ELSE "dropped"]
    /\ UNCHANGED <<store, now>>
    /\ RaceUnchanged

\* The cache write of fireAsyncSynthesis of turn t, which may fail (caught).
RaceSynthesisCacheWrite(t) ==
    /\ turns[t].synthesis = "caching"
    /\ \E ok \in BOOLEAN :
          LET patch == synthesisPatch(t, [id |-> t, len |-> 40], now)
          IN /\ store' = IF ok THEN updateSessionStoreEntry(store, patch) ELSE store
             /\ turns' = [turns EXCEPT ![t].synthesis = IF ok THEN "cached" ELSE "writeFailed",
                                       ![t].synthesisWrote = IF ok THEN Some(patch) ELSE Null]
    /\ UNCHANGED now
    /\ RaceUnchanged

\* runMemoryCortexIngestionIfNeeded of turn t, after its recall returned:
\* the timestamp write is started and not awaited.
RaceIngestStart(t) ==
    /\ turns[t].rpc = "returned"
    /\ turns[t].ingestWrite = "none"
    /\ turns' = [turns EXCEPT ![t].ingestWrite = "inflight"]
    /\ UNCHANGED <<store, now>>
    /\ RaceUnchanged

RaceIngestTimestampWrite(t) ==
    /\ turns[t].ingestWrite = "inflight"
    /\ \E ok \in BOOLEAN :
          LET patch == ingestPatch(now)
          IN /\ store' = IF ok THEN updateSessionStoreEntry(store, patch) ELSE store
             /\ turns' = [turns EXCEPT ![t].ingestWrite = IF ok THEN "ok" ELSE "failed",
                                       ![t].ingestWrote = IF ok THEN Some(patch) ELSE Null]
    /\ UNCHANGED now
    /\ RaceUnchanged

\* Turn t has nothing left to do.
TurnFinished(t) ==
    /\ turns[t].rpc = "returned"
    /\ turns[t].synthesis \in {"dropped", "cached", "writeFailed"}
    /\ turns[t].ingestWrite \in {"ok", "failed"}

\* Time passes while a turn has work left.
RaceTick ==
    /\ \E t \in Turn : ~TurnFinished(t)
    /\ \E t \in Times : t > now /\ (\A u \in Times : u > now => t <= u) /\ now' = t
    /\ UNCHANGED <<store, turns>>
    /\ RaceUnchanged

\* The steps of turn t.
TurnStep(t) ==
    \/ RaceRecallStart(t)
    \/ RaceSearchEnds(t)
    \/ RacePersistRecallMetadata(t)
    \/ RaceSynthesisResponds(t)
    \/ RaceSynthesisCacheWrite(t)
    \/ RaceIngestStart(t)
    \/ RaceIngestTimestampWrite(t)

RaceNext == (\E t \in Turn : TurnStep(t)) \/ RaceTick

RaceSpec == RaceInit /\ [][RaceNext]_vars

\* The patches of the successful writes of one kind, by turn.
WrittenBy(kind) == {turns[t][kind].val : t \in {u \in Turn : ~turns[u][kind].null}}

\* The entry the first turn was given, the store itself before it starts.
EntryBefore == IF turns[1].sessionEntry.null THEN store ELSE turns[1].sessionEntry.val

\* The fields of the entry named by fs hold what the patch p wrote.
HoldsPatch(fs, p) == \A f \in fs : store[f] = p[f]

\* The fields fs are as one successful write of the kind left them, or as
\* they were before the turns when no such write was made.
WrittenWhole(fs, kind) ==
    IF WrittenBy(kind) = {}
    THEN \A f \in fs : store[f] = EntryBefore[f]
    ELSE \E p \in WrittenBy(kind) : HoldsPatch(fs, p)

C29_LaterSynthesisIsCached ==
    (~turns[2].synthesisWrote.null) =>
        store.memoryCortexSynthesis = turns[2].synthesisWrote.val.memoryCortexSynthesis

\* The later turn started after the recall of the earlier turn had returned,
\* both syntheses were cached, and the cache holds the earlier turn's query
\* and narrative.
C29_EarlierSynthesisCachedLast ==
    /\ turns[1].synthesis = "cached" /\ turns[2].synthesis = "cached"
    /\ ~turns[2].overlapped
    /\ store.memoryCortexSynthesis.val.query = 1
    /\ store.memoryCortexSynthesis.val.response.id = 1

\* C30: the thinking level of every plan is one of the six known levels,
\* whatever string a per-category thinkingLevel override is: an override
\* outside the six is ranked lowest and is never itself the plan's level.
C30_ThinkLevelIsKnown ==
    Classified => plan.val.thinkLevel \in Range(LevelsInOrder)

\* An override that is none of the six levels and no inherited member name
\* is ranked lowest: the plan keeps a known level.
C30_UnknownOverrideRankedLowest ==
    /\ Classified /\ config.thinkingTuning
    /\ \E c \in Range(MatchedNow) : config.categories[c.name].thinkingLevel = "turbo"
    /\ plan.val.thinkLevel = "off"

\* The override "constructor" of the only matched category is the level of
\* the plan.
C30_InheritedNameReturned ==
    /\ Classified /\ config.thinkingTuning
    /\ Len(MatchedNow) = 1
    /\ config.categories[MatchedNow[1].name].thinkingLevel = "constructor"
    /\ plan.val.thinkLevel = "constructor"

=============================================================================
